---- MODULE Spec2Model ----
(***************************************************************************)
(* Streaming session and ordering layer of the chat backend.               *)
(*                                                                         *)
(* One conversation (session_id) is modelled; every piece of state the     *)
(* handler keys by session_id is therefore a single value.  Each websocket *)
(* connection owns one ChatWebSocketHandler (routes/chat.py:249-256) with  *)
(* its own database session and its own _sequence_cache.  Each `message`   *)
(* frame spawns one asyncio task running _handle_user_message; the task is *)
(* modelled with one program counter value per await at which it can be    *)
(* suspended.  The conversation is in agent mode (enabled_tools is not     *)
(* empty), the branch taken at chat_handler.py:371.                        *)
(*                                                                         *)
(* Text is a sequence of deltas; the k-th delta the model streams produce  *)
(* is the number k, so loss and duplication of a delta are both visible.   *)
(*                                                                         *)
(* The environment is bounded by one budget, MaxExtras: a run is one       *)
(* client running one turn of plain text, plus at most MaxExtras further   *)
(* happenings (a further connection, a further message, a cancel frame, a  *)
(* disconnect, a failed write, a failed model stream, a function call).    *)
(*                                                                         *)
(* Further parts stand beside the handler, each with a specification       *)
(* of its own over the same variables.  AgentSpec is one ReActAgent        *)
(* (core/agent/executor.py): its constructor, and run() as a generator     *)
(* suspended at its yields and awaits, with the model stream, the tool     *)
(* result and the cancel event as inputs.  PoolSpec is the                 *)
(* ContainerPoolManager (core/sandbox/manager.py) for one session_id:      *)
(* create_container suspended at its two awaits, destroy_container, the    *)
(* container engine with its rule of one container per name, containers    *)
(* that exit or are removed from outside, engine calls that fail, and the  *)
(* restart of the process, which empties the pool and leaves the           *)
(* containers.  SessionSpec is the conversation with the turns that run    *)
(* on it at once: the ToolRegistry each turn builds and swaps              *)
(* (chat_handler.py lines 664-707 and 913-951), SetupEnvironmentTool       *)
(* (tools/environment_tool.py) suspended at its awaits, the pool as the    *)
(* turns call it, cancellation, and the deletion of the session            *)
(* (routes/chat.py).  LinkSpec is the receive loop of one connection       *)
(* (chat_handler.py lines 201-305) over the frames a client can send.      *)
(* ToolSpec is the tools that reach the sandbox: the file tools with the   *)
(* checks of their path argument (tools/file_tools.py,                     *)
(* tools/line_edit_tool.py, sandbox/security.py), paths being sequences    *)
(* of segments, and bash with the seconds its command runs                 *)
(* (tools/bash_tool.py, sandbox/container.py).                             *)
(* LoopSpec is one ReActAgent on a long run: max_iterations of             *)
(* MaxLoopIterations and a model that answers every iteration with one     *)
(* call of a registered tool, long enough for the same tool to be called   *)
(* max_same_tool_retries times in a row.  EditSpec is one file_edit        *)
(* (tools/file_tools.py) over the contents a file can have, the strings    *)
(* being sequences of characters.  BatchSpec and TurnSpec are one client   *)
(* and its one turn of the handler: BatchSpec with a model stream of up to *)
(* MaxBatchDeltas text deltas, more than one batch of                      *)
(* CHUNK_COMMIT_INTERVAL, TurnSpec with the event loop running every task  *)
(* that can take a step.                                                   *)
(***************************************************************************)
EXTENDS Integers, Sequences, FiniteSets, TLC

\* ---------------------------------------------------------------- bounds
\* websocket connections opened for the conversation
MaxConns == 2
\* message frames received, each spawning one asyncio task
MaxTasks == 2
\* text deltas the model streams produce, over all turns
MaxDeltas == 2
\* AgentConfiguration.max_iterations, the iterations of one ReAct loop
MaxIterations == 1
\* happenings beyond one client running one turn of plain text
MaxExtras == 2

\* the greatest max_iterations a ReActAgent is constructed with
MaxAgentIterations == 3
\* the most items (text chunks and function-call deltas) of one model stream,
\* and of all the model streams of a run
MaxStream == 2
MaxItems == 4
\* the greatest call index of a function-call delta
MaxIndex == 1
\* the most pool operations of a run, and the most that are under way at once
MaxCalls == 4
MaxCallers == 2
\* the most containers the engine starts in a run
MaxContainers == 3
\* the most engine or storage calls that fail in a run
MaxFaults == 1
\* the frames a client sends over one connection
MaxFrames == 3
\* the segments of a path argument
MaxSegments == 3
\* the greatest timeout a bash call passes, and the most seconds a command
\* takes
MaxTimeout == 2
MaxDuration == 3
\* the turns (_handle_agent_response) of the conversation that run at once,
\* and the iterations of the agent loop of one turn
MaxTurns == 2
MaxTurnIterations == 2
\* max_iterations of the agent whose run is long enough to repeat one tool
MaxLoopIterations == 6
\* text deltas of the one turn that streams past a batch of
\* CHUNK_COMMIT_INTERVAL
MaxBatchDeltas == 52
\* the characters of a file's content and of the old_content and new_content
\* of an edit
MaxContent == 2

Conns == 1..MaxConns
Tasks == 1..MaxTasks
Callers == 1..MaxCallers
Turns == 1..MaxTurns

\* ------------------------------------------------------ program constants
\* chat_handler.py line 738
CHUNK_COMMIT_INTERVAL == 50
\* executor.py line 45
max_validation_retries == 3
\* executor.py line 46
max_same_tool_retries == 5

VARIABLES
    conn,           \* per connection: the ChatWebSocketHandler and its socket
    frames,         \* per connection: the frames its handler coroutine sent the client
    task,           \* per asyncio task: position and locals of _handle_user_message,
                    \* and a tally of the frames of its turn the client received
    db,             \* durably committed content_blocks rows
    latest,         \* the assistant_text row with the greatest created_at (0: none)
    registry,       \* task registry entry of the conversation (0: none)
    info,           \* the registry's task-info objects, one per registered task
    stream_states,  \* _stream_states[session_id]
    chunk_buffers,  \* _chunk_buffers[session_id]
    streams,        \* streaming_manager's registration for the conversation
    events,         \* the asyncio.Event objects that are set
    extras          \* what happened so far beyond one client running one turn of
                    \* plain text: further connections, further messages, cancel
                    \* frames, disconnects, failed writes, failed model streams,
                    \* function calls
VARIABLES
    agent,          \* one ReActAgent: its attributes, the locals of its run() and
                    \* the model stream and cancel event run() reads
    emitted         \* what the consumer of run() has received: the events and
                    \* the tool units it persisted for them
VARIABLES
    active_containers,  \* ContainerPoolManager.active_containers
    docker,             \* the containers of the container engine
    calls,              \* per caller: the pool operation under way or returned
    pool_ops            \* the pool operations begun so far
VARIABLES
    session,        \* the chat_sessions row of the conversation and the number
                    \* of content_blocks rows that belong to it
    agent_config,   \* the AgentConfiguration of the project
    turns           \* per turn: position and locals of _handle_agent_response,
                    \* of the agent it runs and of the tool the agent executes
VARIABLES
    invocation,     \* the tool execution under way: tool, arguments, result
    sandbox         \* what reached the sandbox: reads, writes and commands
VARIABLES
    link            \* one websocket connection as its receive loop handles the
                    \* frames of the client

chat_vars == <<conn, frames, task, db, latest, registry, info, stream_states,
               chunk_buffers, streams, events, extras>>

agent_vars == <<agent, emitted>>

pool_vars == <<active_containers, docker, calls, pool_ops>>

session_vars == <<session, agent_config, turns>>

tool_vars == <<invocation, sandbox>>

link_vars == <<link>>

vars == <<chat_vars, agent_vars, pool_vars, session_vars, tool_vars, link_vars>>

Absent == [present |-> FALSE]

\* identities: the k-th ContentBlock a task constructs, the asyncio.Event made
\* for a task's message frame, the asyncio.Event its turn makes
BlockId(t, k) == MaxTasks * (k - 1) + t
MessageEvent(t) == t
TurnEvent(t) == MaxTasks + t

\* ------------------------------------------------------------- helpers
RECURSIVE Concat(_)
Concat(ss) == IF ss = <<>> THEN <<>> ELSE Head(ss) \o Concat(Tail(ss))

Max(S) == IF S = {} THEN 0 ELSE CHOOSE x \in S : \A y \in S : y <= x

Suffix(s, n) == SubSeq(s, n + 1, Len(s))

RECURSIVE Sum(_, _)
Sum(f, n) == IF n = 0 THEN 0 ELSE f[n] + Sum(f, n - 1)

Frame(type, turn, block, content) ==
    [type |-> type, turn |-> turn, block |-> block, content |-> content]

\* websocket.send_json succeeds only on a socket that is still connected
SendOK(c) == conn[c].open /\ conn[c].pc # "closed"

TerminalTypes == {"assistant_text_end", "cancelled", "error"}
ContentTypes == {"chunk", "tool_call_block", "tool_result_block"}

\* the turn's tally once the client received one more frame of the turn
Tally(r, type) ==
    [r EXCEPT !.terminals = IF type \in TerminalTypes THEN @ + 1 ELSE @,
              !.late = @ \/ (type \in ContentTypes /\ r.terminals > 0)]

\* the type of the frame a task suspended in websocket.send_json is sending
SendingType(pc) ==
    CASE pc = "user_send"   -> "user_text_block"
      [] pc = "start_send"  -> "assistant_text_start"
      [] pc \in {"chunk_send", "fa_send"} -> "chunk"
      [] pc = "tc_send"     -> "tool_call_block"
      [] pc = "tr_send"     -> "tool_result_block"
      [] pc \in {"cancel_send", "cancel_send2"} -> "cancelled"
      [] pc \in {"end_send", "exc_send2"} -> "assistant_text_end"
      [] OTHER              -> "error"

\* the task's record after its send: nr when the send raised, nr with the
\* frame tallied when the client received it
Sent(t, nr) ==
    IF SendOK(task[t].conn) THEN Tally(nr, SendingType(task[t].pc))
    ELSE [nr EXCEPT !.send_failed = TRUE]

\* a task's record with the locals its position no longer reads put back to
\* their initial values
Scope(r) ==
    LET writing == r.pc \in {"user_write", "asst_write", "tc_write", "tr_write"}
        looping == r.pc \in {"llm", "chunk_send", "tool", "tc_write", "tc_send",
                             "tr_write", "tr_send"}
    IN  [r EXCEPT !.seq = IF writing THEN @ ELSE 0,
                  !.new_block = IF writing THEN @ ELSE 0,
                  !.event = IF looping THEN @ ELSE 0,
                  !.iter = IF looping THEN @ ELSE 0,
                  !.full_response = IF looping THEN @ ELSE 0,
                  !.tool_call = IF looping THEN @ ELSE FALSE,
                  !.tool_block = IF r.pc \in {"tc_send", "tr_write"} THEN @ ELSE 0,
                  !.success = IF r.pc \in {"tc_write", "tc_send", "tr_write"} THEN @ ELSE TRUE,
                  !.chunks_since_commit = IF looping \/ r.pc = "fa_send" THEN @ ELSE 0]

\* asyncio: a task is done once its coroutine returned or raised
TaskDone(t) == task[t].pc \in {"done", "failed", "cancelled"}
TaskAlive(t) == task[t].pc \notin {"none", "done", "failed", "cancelled"}

InitConn == [pc |-> "new", open |-> FALSE, seq_cache |-> 0, cancel_event |-> 0,
             cur_task |-> 0, existing |-> 0, last_len |-> 0, cap_len |-> 0,
             pending |-> <<>>, attached |-> FALSE]

InitTask == [pc |-> "none", conn |-> 0, must_cancel |-> FALSE,
             seq |-> 0, content |-> <<>>, block_text |-> <<>>,
             cancelled |-> FALSE, has_error |-> FALSE,
             block |-> 0, tool_block |-> 0, new_block |-> 0, made |-> 0,
             event |-> 0, iter |-> 0, full_response |-> 0, tool_call |-> FALSE,
             deltas |-> 0, chunks_since_commit |-> 0,
             terminals |-> 0, late |-> FALSE, send_failed |-> FALSE, success |-> TRUE]

InitInfo == [status |-> "none", message_id |-> 0, cancel_event |-> 0]

\* ------------------------------------------------------ ReActAgent, state
\* a function-call delta without a name, and one without an index
None == "None"
NoIndex == -1

\* the tools of the registry handed to the agent, and the names a delta can carry
Registered == {"tool_a", "tool_b"}
Names == Registered \cup {"unknown", None}

NoCalls == [i \in {} |-> 0]

\* executor.py lines 58-68: the attributes; the locals of run() and the model
\* stream and cancel event it reads are held with them.  pc is the place run()
\* is suspended at: "none" (not constructed), "ready" (run() not yet started),
\* "top" (a yield before the loop head), "stream" (the next item of
\* generate_stream), "tool" (validate_and_execute), "observe" (the yield of the
\* action event), "done" (run() has returned)
InitAgent == [pc |-> "none", max_iterations |-> 0, validation_retry_count |-> 0,
              tool_call_history |-> <<>>, iteration |-> 0, cancel_event |-> FALSE,
              full_response |-> <<>>, tool_calls |-> NoCalls, chunk_count |-> 0,
              deltas |-> <<>>, function_name |-> None, function_args |-> <<>>,
              args |-> <<>>, result |-> "none", appended |-> <<>>, ended |-> "no",
              items |-> 0, indices |-> 0]

\* what the consumer of run() holds: the type of the last event, the events of
\* the iteration under way, the event types that came after the cancel event
\* was set, counts of the model streams opened, the tools called, the
\* escalation hints, the validation errors (all, and in a row), the tools
\* called in the iteration under way, the final_answer events, and of the tool
\* units the chat handler persisted for action and observation events
InitEmitted == [last |-> "none", iter |-> <<>>, after_cancel |-> {},
                llm_calls |-> 0, tool_execs |-> 0, escalations |-> 0,
                failures |-> 0, streak |-> 0, iter_execs |-> 0, final_answers |-> 0,
                tool_call |-> 0, tool_result |-> 0, failed_result |-> 0]

\* ------------------------------------------------ ContainerPoolManager, state
\* manager.py line 36: no session tracked (0), else the container id of the handle
InitActive == 0

\* the engine: the containers that exist under the name
\* openclaudeui-sandbox-{session_id}, each [id, status], the number of
\* containers it has started (the next one gets the next id) and the number
\* of calls it has failed
InitDocker == [containers |-> {}, started |-> 0, faults |-> 0]

\* a caller of the pool: the operation (op), where it is (pc: "idle",
\* "workspace" and "volume" for create_container suspended at line 148 and at
\* line 155, "returned", "raised"), its env_type (known to env_images or not)
\* and environment_config (with packages or not), the id of the handle it
\* returned, the success flag destroy_container returned, the id the pool
\* tracked when it began and that container's status in the engine, the id of
\* the container the orphan check found, whether a call it made failed,
\* whether another create_container was suspended while it ran, and the place
\* of the operation among the operations begun (at)
InitCall == [op |-> "none", pc |-> "idle", known_env |-> TRUE, packages |-> FALSE,
             result |-> 0, success |-> TRUE, tracked |-> 0, status |-> "absent",
             orphan |-> 0, faulted |-> FALSE, overlapped |-> FALSE, at |-> 0]

InitCalls == [k \in Callers |-> InitCall]

\* ------------------------------------------------- conversation and turn, state
\* chat_session.py line 32: environment_type is null until it is set up
NULL == "null"

\* chat_session.py lines 18-38: the row (exists), the project it belongs to,
\* environment_type and environment_config, and the content_blocks rows that
\* cascade with it
InitSession == [exists |-> TRUE, project_id |-> "project", environment_type |-> NULL,
                environment_config |-> NULL, blocks |-> 0]

\* projects.py line 66: the enabled_tools a project is created with
InitAgentConfig ==
    [enabled_tools |-> {"bash", "file_read", "file_write", "edit_lines", "search", "think"}]

\* a turn: where it is (pc), the ToolRegistry it built (tool_registry), the
\* enabled_tools of the agent_config its connection loaded, the iterations
\* its agent began, what get_tools_for_llm returned to the agent (listed) and
\* the registry the agent looked the tool up in (looked), the tool under way
\* with the environment_type asked for and its ToolResult.success, the caller
\* of the create_container under way (site), whether the turn swapped its
\* registry, and the arguments its last call of create_container bound to
\* the parameters of manager.py lines 102-108, with the caller
Unread == {"unread"}

NoArgs == [site |-> "none", project_id |-> NULL, env_type |-> NULL,
           environment_config |-> NULL]

InitTurn == [pc |-> "idle", tool_registry |-> {}, enabled_tools |-> {},
             iterations |-> 0, listed |-> Unread, looked |-> Unread,
             tool |-> "none", requested |-> NULL, success |-> FALSE,
             site |-> "none", swapped |-> FALSE, read |-> NULL, args |-> NoArgs]

\* ------------------------------------------------------- receive loop, state
\* a frame of the client: what json.loads makes of its text (an object,
\* another value such as an array, or nothing: invalid), and the "type" of
\* an object ("none" when it has none)
NoFrame == [json |-> "none", type |-> "none"]

\* chat_handler.py lines 201-305: where handle_connection is (pc), the frames
\* it sent, the frames it received and the last of them, whether the socket
\* took what was sent after that frame (usable), the tasks it created, its
\* cancel_event, whether it cancelled its current task, and whether it called
\* streaming_manager.handle_disconnect
InitLink == [pc |-> "new", sent |-> <<>>, received |-> 0, last |-> NoFrame,
             usable |-> TRUE, tasks |-> 0, cancel_event |-> "none",
             cancelled |-> FALSE, handle_disconnect |-> FALSE]

\* ------------------------------------------------------- tool execution, state
\* the tool execution under way or returned: the tool, where it is (pc), its
\* path argument as the sequence of its segments, its ToolResult.success, and
\* for bash the timeout passed, the seconds the command takes and the seconds
\* it has run, and for file_edit what read_file returned (the file was read or
\* not, and its content) with the old_content and new_content of the call
Unreadable == [found |-> FALSE, content |-> <<>>]

InitInvocation == [tool |-> "none", pc |-> "idle", path |-> <<>>, success |-> FALSE,
                   timeout |-> 0, duration |-> 0, elapsed |-> 0,
                   read |-> Unreadable, old_content |-> <<>>, new_content |-> <<>>]

\* what the execution issued to the SandboxContainer: read_file and
\* write_file with their path, and execute; a write_file has its content and
\* whether it returned True
InitSandbox == <<>>

Init ==
    /\ conn = [c \in Conns |-> InitConn]
    /\ frames = [c \in Conns |-> <<>>]
    /\ task = [t \in Tasks |-> InitTask]
    /\ db = {}
    /\ latest = 0
    /\ registry = 0
    /\ info = [t \in Tasks |-> InitInfo]
    /\ stream_states = Absent
    /\ chunk_buffers = Absent
    /\ streams = [task |-> 0, finalized |-> TRUE]
    /\ events = {}
    /\ extras = 0
    /\ agent = InitAgent
    /\ emitted = InitEmitted
    /\ active_containers = InitActive
    /\ docker = InitDocker
    /\ calls = InitCalls
    /\ pool_ops = 0
    /\ session = InitSession
    /\ agent_config = InitAgentConfig
    /\ turns = [k \in Turns |-> InitTurn]
    /\ invocation = InitInvocation
    /\ sandbox = InitSandbox
    /\ link = InitLink

\* ------------------------------------------------------- task registry
\* get_task(session_id): the entry, and whether line 208 finds it running
RunningEntry == registry # 0 /\ info[registry].status = "running"

\* register_task(session_id, "pending", task, cancel_event)
RegisterTask(t, cancel_event) ==
    /\ registry' = t
    /\ info' = [info EXCEPT ![t] = [status |-> "running", message_id |-> 0,
                                    cancel_event |-> cancel_event]]

\* mark_completed(session_id, status): applies to the entry the map holds
MarkCompleted(status) ==
    IF registry = 0 THEN info
    ELSE [info EXCEPT ![registry].status = status]

\* --------------------------------------------------------- sequencer
MaxSeq(d) == Max({b.seq : b \in d})

\* line 133: session_id in self._sequence_cache
InCache(c) == conn[c].seq_cache # 0

\* lines 143-144 on a cached counter
NextCached(c) == conn[c].seq_cache + 1

\* lines 139-144 once the max query returned max_seq
NextQueried(max_seq) == max_seq + 1

\* one commit of the handler's database session: every dirty attribute of
\* the session's objects is written, here the text set at line 988
Flush(d, c, tk) ==
    { IF b.kind = "assistant_text" /\ tk[b.owner].conn = c /\ tk[b.owner].block = b.id
      THEN [b EXCEPT !.text = tk[b.owner].block_text]
      ELSE b : b \in d }

Block(id, seq, kind, t, parent) ==
    [id |-> id, seq |-> seq, kind |-> kind, text |-> <<>>, streaming |-> (kind = "assistant_text"),
     cancelled |-> FALSE, has_error |-> FALSE, owner |-> t, parent |-> parent,
     tool_name |-> "none", status |-> "none", success |-> TRUE]

\* the tool of the action events
ToolName == "bash"

\* lines 847-857: the content of a tool_call block, the tool of the event
\* with status pending
ToolCallContent(b) == [b EXCEPT !.tool_name = ToolName, !.status = "pending"]

\* lines 876-878 and 889-901: the content of a tool_result block, the
\* tool_name of current_tool_call_block, "unknown" without one, and the
\* success of the event
ToolResultContent(b, d, success) ==
    [b EXCEPT !.tool_name = IF b.parent = 0 THEN "unknown"
                            ELSE (CHOOSE p \in d : p.id = b.parent).tool_name,
              !.success = success]

\* lines 879-884: the status the observation gives current_tool_call_block,
\* written by the commit of line 885
Observed(d, tool_block, success) ==
    { IF b.id = tool_block
      THEN [b EXCEPT !.status = IF success THEN "complete" ELSE "error"]
      ELSE b : b \in d }

\* ------------------------------------------------- connection handlers
NewTask == CHOOSE t \in Tasks : task[t].pc = "none" /\ \A u \in Tasks : task[u].pc = "none" => t <= u

\* a connection that falls from the attach check into the message loop
AttachFallsThrough == "loop"

\* lines 209-211: once _attach_to_existing_stream returns, handle_connection
\* returns and the connection is done
AfterAttach == "closed"

\* lines 1339-1395 from the loop test on: either one more round of the poll
\* loop (a chunk send or the sleep), or the completion frame and the return
Poll(c, last, fr) ==
    LET e == conn[c].existing
        grew == stream_states.present /\ Len(stream_states.content) > last
    IN  IF info[e].status = "running" /\ ~TaskDone(e)
        THEN /\ frames' = fr
             /\ conn' = [conn EXCEPT ![c] =
                  IF grew
                  THEN [@ EXCEPT !.pc = "a_chunk", !.last_len = last,
                                 !.cap_len = Len(stream_states.content),
                                 !.pending = <<Frame("chunk", 0, stream_states.block_id,
                                                     Suffix(stream_states.content, last))>>]
                  ELSE [@ EXCEPT !.pc = "a_poll", !.last_len = last, !.pending = <<>>]]
        ELSE /\ conn' = [conn EXCEPT ![c] = [@ EXCEPT !.pc = AfterAttach, !.last_len = last,
                                                     !.pending = <<>>]]
             /\ frames' =
                  IF ~(TaskDone(e) /\ SendOK(c)) THEN fr
                  ELSE IF info[e].status = "completed"
                       THEN [fr EXCEPT ![c] = Append(@, Frame("assistant_text_end", 0,
                                IF stream_states.present THEN stream_states.block_id
                                ELSE info[e].message_id, <<>>))]
                  ELSE IF info[e].status = "cancelled"
                       THEN [fr EXCEPT ![c] = Append(@, Frame("cancelled", 0, 0, <<>>))]
                  ELSE fr

\* handle_connection lines 203-211 and 241: accept, then attach to a running
\* task or enter the message loop
Connect(c) ==
    /\ conn[c].pc = "new" /\ \A b \in Conns : b < c => conn[b].pc # "new"
    /\ c > 1 => extras < MaxExtras
    /\ extras' = IF c > 1 THEN extras + 1 ELSE extras
    /\ IF RunningEntry
       THEN conn' = [conn EXCEPT ![c] = [@ EXCEPT !.pc = "a_sync", !.open = TRUE,
                        !.attached = TRUE, !.existing = registry,
                        !.pending = IF stream_states.present
                                    THEN <<Frame("stream_sync", 0, stream_states.block_id,
                                                 stream_states.content)>>
                                    ELSE <<Frame("resuming_stream", 0,
                                                 info[registry].message_id, <<>>)>>]]
       ELSE conn' = [conn EXCEPT ![c] = [@ EXCEPT !.pc = "loop", !.open = TRUE]]
    /\ UNCHANGED <<agent_vars, pool_vars, session_vars, tool_vars, link_vars>>
    /\ UNCHANGED <<frames, task, db, latest, registry, info, stream_states,
                   chunk_buffers, streams, events>>

\* lines 1293-1336: the resume frame is out; replay the legacy buffer when the
\* resume frame was resuming_stream; then measure the text already there
AttachSynced(c) ==
    /\ conn[c].pc = "a_sync"
    /\ IF ~SendOK(c)
       THEN /\ conn' = [conn EXCEPT ![c] = [@ EXCEPT !.pc = AfterAttach, !.pending = <<>>]]
            /\ frames' = frames
       ELSE LET legacy == conn[c].pending[1].type = "resuming_stream"
                replay == IF legacy /\ chunk_buffers.present THEN chunk_buffers.chunks ELSE <<>>
                fr == [frames EXCEPT ![c] = @ \o conn[c].pending \o replay]
                last == IF stream_states.present THEN Len(stream_states.content) ELSE 0
            IN  Poll(c, last, fr)
    /\ UNCHANGED <<agent_vars, pool_vars, session_vars, tool_vars, link_vars>>
    /\ UNCHANGED <<task, db, latest, registry, info, stream_states,
                   chunk_buffers, streams, events, extras>>

\* lines 1350-1362: the chunk send returned
AttachForwarded(c) ==
    /\ conn[c].pc = "a_chunk"
    /\ IF SendOK(c)
       THEN /\ frames' = [frames EXCEPT ![c] = @ \o conn[c].pending]
            /\ conn' = [conn EXCEPT ![c] = [@ EXCEPT !.pc = "a_poll",
                                                   !.last_len = conn[c].cap_len,
                                                   !.pending = <<>>]]
       ELSE /\ frames' = frames
            /\ conn' = [conn EXCEPT ![c] = [@ EXCEPT !.pc = AfterAttach, !.pending = <<>>]]
    /\ UNCHANGED <<agent_vars, pool_vars, session_vars, tool_vars, link_vars>>
    /\ UNCHANGED <<task, db, latest, registry, info, stream_states,
                   chunk_buffers, streams, events, extras>>

\* line 1362 and the next loop test: the 30 ms sleep is over
AttachWake(c) ==
    /\ conn[c].pc = "a_poll"
    /\ Poll(c, conn[c].last_len, frames)
    /\ UNCHANGED <<agent_vars, pool_vars, session_vars, tool_vars, link_vars>>
    /\ UNCHANGED <<task, db, latest, registry, info, stream_states,
                   chunk_buffers, streams, events, extras>>

\* lines 248-269: a message frame
ClientMessage(c) ==
    /\ conn[c].pc = "loop" /\ conn[c].open
    /\ \E u \in Tasks : task[u].pc = "none"
    /\ NewTask > 1 => extras < MaxExtras
    /\ extras' = IF NewTask > 1 THEN extras + 1 ELSE extras
    /\ LET t == NewTask
           fresh == conn[c].cancel_event = 0
       IN  /\ conn' = [conn EXCEPT ![c] = [@ EXCEPT !.cur_task = t,
                         !.cancel_event = IF fresh THEN MessageEvent(t) ELSE @]]
           /\ task' = [task EXCEPT ![t] = [@ EXCEPT !.pc = "start", !.conn = c]]
           /\ RegisterTask(t, IF fresh THEN MessageEvent(t) ELSE conn[c].cancel_event)
    /\ UNCHANGED <<agent_vars, pool_vars, session_vars, tool_vars, link_vars>>
    /\ UNCHANGED <<frames, db, latest, stream_states, chunk_buffers, streams, events>>

\* lines 270-284: a cancel frame
ClientCancel(c) ==
    /\ conn[c].pc = "loop" /\ conn[c].open /\ extras < MaxExtras
    /\ extras' = extras + 1
    /\ events' = IF conn[c].cancel_event # 0 THEN events \cup {conn[c].cancel_event} ELSE events
    /\ task' = IF conn[c].cur_task # 0 /\ ~TaskDone(conn[c].cur_task)
               THEN [task EXCEPT ![conn[c].cur_task].must_cancel = TRUE]
               ELSE task
    /\ frames' = [frames EXCEPT ![c] = Append(@, Frame("cancel_acknowledged", 0, 0, <<>>))]
    /\ UNCHANGED <<agent_vars, pool_vars, session_vars, tool_vars, link_vars>>
    /\ UNCHANGED <<conn, db, latest, registry, info, stream_states,
                   chunk_buffers, streams>>

\* the client closes its end of the socket
ClientDisconnect(c) ==
    /\ conn[c].open /\ conn[c].pc \notin {"new", "closed"} /\ extras < MaxExtras
    /\ extras' = extras + 1
    /\ conn' = [conn EXCEPT ![c].open = FALSE]
    /\ UNCHANGED <<agent_vars, pool_vars, session_vars, tool_vars, link_vars>>
    /\ UNCHANGED <<frames, task, db, latest, registry, info, stream_states,
                   chunk_buffers, streams, events>>

\* streaming_manager.handle_disconnect(session_id): the registered cleanup
\* callback (finalize_agent_block, lines 741-763) of a stream not yet finalized
HandleDisconnect ==
    LET t == streams.task
    IN  IF t = 0 \/ streams.finalized THEN db
        ELSE { IF b.id = task[t].block
               THEN [b EXCEPT !.text = task[t].content, !.streaming = FALSE,
                              !.has_error = task[t].has_error,
                              !.cancelled = task[t].cancelled]
               ELSE b : b \in Flush(db, task[t].conn, task) }

\* lines 286-305: receive_text raised WebSocketDisconnect
LoopDisconnected(c) ==
    /\ conn[c].pc = "loop" /\ ~conn[c].open
    /\ db' = HandleDisconnect
    /\ streams' = [streams EXCEPT !.finalized = TRUE]
    /\ conn' = [conn EXCEPT ![c].pc = "closed"]
    /\ UNCHANGED <<agent_vars, pool_vars, session_vars, tool_vars, link_vars>>
    /\ UNCHANGED <<frames, task, latest, registry, info, stream_states,
                   chunk_buffers, events, extras>>


\* ------------------------------------------------- _handle_user_message
\* _create_content_block line 169 on a cached counter, and the ContentBlock
\* constructed at lines 171-180: the task holds the number and the object
Assigned(t, seq) ==
    [task[t] EXCEPT !.seq = seq, !.made = @ + 1, !.new_block = BlockId(t, task[t].made + 1)]

\* lines 180-182 succeeded: the row is durable, with the session's dirty text
Written(t, kind, parent) ==
    LET b == Block(task[t].new_block, task[t].seq, kind, t, parent)
    IN  Flush(db, task[t].conn, task) \cup
        {IF kind = "tool_call" THEN ToolCallContent(b)
         ELSE IF kind = "tool_result" THEN ToolResultContent(b, db, task[t].success)
         ELSE b}

\* the assistant block the except branch of _handle_agent_response finds when
\* the implementation raised: the most recently created one (lines 618-627)
LatestAssistant == latest

\* lines 324 and 133: the coroutine starts and asks for a sequence number
TaskStart(t) ==
    LET r == task[t]
        c == r.conn
    IN  /\ r.pc = "start" /\ ~r.must_cancel
        /\ IF InCache(c)
           THEN /\ task' = [task EXCEPT ![t] = Scope([Assigned(t, NextCached(c)) EXCEPT !.pc = "user_write"])]
                /\ conn' = [conn EXCEPT ![c].seq_cache = NextCached(c)]
                /\ latest' = latest
           ELSE /\ task' = [task EXCEPT ![t] = Scope([r EXCEPT !.pc = "user_seq"])]
                /\ UNCHANGED <<conn, latest>>
        /\ UNCHANGED <<agent_vars, pool_vars, session_vars, tool_vars, link_vars>>
        /\ UNCHANGED <<frames, db, registry, info, stream_states, chunk_buffers,
                       streams, events, extras>>

\* lines 135-144: the max query returned
UserSeq(t) ==
    LET r == task[t]
        c == r.conn
        seq == NextQueried(MaxSeq(db))
    IN  /\ r.pc = "user_seq" /\ ~r.must_cancel
        /\ task' = [task EXCEPT ![t] = Scope([Assigned(t, seq) EXCEPT !.pc = "user_write"])]
        /\ conn' = [conn EXCEPT ![c].seq_cache = seq]
        /\ UNCHANGED <<agent_vars, pool_vars, session_vars, tool_vars, link_vars>>
        /\ UNCHANGED <<frames, db, registry, info, stream_states, chunk_buffers,
                       streams, events, extras, latest>>

\* lines 180-182 for the user_text block; a failed write leaves the coroutine
UserWrite(t) ==
    LET r == task[t]
    IN  /\ r.pc = "user_write" /\ ~r.must_cancel
        /\ \E ok \in (IF extras < MaxExtras THEN BOOLEAN ELSE {TRUE}) :
             /\ extras' = (IF ok THEN extras ELSE extras + 1)
             /\ IF ok
                THEN /\ db' = Written(t, "user_text", 0)
                     /\ task' = [task EXCEPT ![t] = Scope([r EXCEPT !.pc = "user_send"])]
                ELSE /\ db' = db
                     /\ task' = [task EXCEPT ![t] = Scope([r EXCEPT !.pc = "failed"])]
        /\ UNCHANGED <<agent_vars, pool_vars, session_vars, tool_vars, link_vars>>
        /\ UNCHANGED <<conn, frames, latest, registry, info, stream_states,
                       chunk_buffers, streams, events>>

\* lines 333-336: user_text_block, outside every try
UserSend(t) ==
    LET r == task[t]
        c == r.conn
    IN  /\ r.pc = "user_send" /\ ~r.must_cancel
        /\ frames' = frames
        /\ task' = [task EXCEPT ![t] =
              Sent(t, [r EXCEPT !.pc = IF SendOK(c) THEN "prep" ELSE "failed"])]
        /\ UNCHANGED <<agent_vars, pool_vars, session_vars, tool_vars, link_vars>>
        /\ UNCHANGED <<conn, db, latest, registry, info, stream_states,
                       chunk_buffers, streams, events, extras>>

\* lines 342-711: history, provider, session and sandbox are awaited, then
\* the assistant_text block takes its number
Prep(t) ==
    LET r == task[t]
        c == r.conn
    IN  /\ r.pc = "prep" /\ ~r.must_cancel
        /\ task' = [task EXCEPT ![t] = Scope([Assigned(t, NextCached(c)) EXCEPT !.pc = "asst_write"])]
        /\ conn' = [conn EXCEPT ![c].seq_cache = NextCached(c)]
        /\ UNCHANGED <<agent_vars, pool_vars, session_vars, tool_vars, link_vars>>
        /\ UNCHANGED <<frames, db, registry, info, stream_states, chunk_buffers,
                       streams, events, extras, latest>>

\* lines 711-780: the assistant_text block is written, the registry entry gets
\* its id, a new cancel event replaces the handler's, the stream is registered
\* and the stream state initialised
AsstWrite(t) ==
    LET r == task[t]
        c == r.conn
    IN  /\ r.pc = "asst_write" /\ ~r.must_cancel
        /\ \E ok \in (IF extras < MaxExtras THEN BOOLEAN ELSE {TRUE}) :
             /\ extras' = (IF ok THEN extras ELSE extras + 1)
             /\ IF ok
                THEN /\ db' = Written(t, "assistant_text", 0)
                     /\ task' = [task EXCEPT ![t] = Scope([r EXCEPT !.pc = "start_send",
                                                             !.block = r.new_block])]
                     /\ info' = IF registry = 0 THEN info
                                ELSE [info EXCEPT ![registry].message_id = r.new_block]
                     /\ conn' = [conn EXCEPT ![c].cancel_event = TurnEvent(t)]
                     /\ latest' = r.new_block
                     /\ streams' = [task |-> t, finalized |-> FALSE]
                     /\ stream_states' = [present |-> TRUE, block_id |-> r.new_block,
                                          content |-> <<>>]
                ELSE /\ task' = [task EXCEPT ![t] = Scope([r EXCEPT !.pc = "exc_commit"])]
                     /\ UNCHANGED <<db, info, conn, latest, streams, stream_states>>
        /\ UNCHANGED <<agent_vars, pool_vars, session_vars, tool_vars, link_vars>>
        /\ UNCHANGED <<frames, registry, chunk_buffers, events>>


\* ------------------------------------- _handle_agent_response_impl, the loop
\* executor.py lines 136 and 163: cancel_event and cancel_event.is_set()
CancelSeen(r) == r.event # 0 /\ r.event \in events

\* the text of the final_answer event of executor.py lines 381-385, a delta
\* no model stream produces
MaxIterationsText == 0

\* executor.py lines 132-143 and 380-385 with chat_handler.py lines 796-798 and
\* 994-1003: the next iteration begins, or the loop is exhausted
IterStart(r) ==
    IF r.iter = MaxIterations
    THEN [r EXCEPT !.pc = "fa_send", !.content = Append(@, MaxIterationsText),
                   !.chunks_since_commit = @ + 1]
    ELSE IF CancelSeen(r)
    THEN [r EXCEPT !.pc = "cancel_send", !.cancelled = TRUE]
    ELSE [r EXCEPT !.pc = "llm", !.iter = @ + 1, !.full_response = 0, !.tool_call = FALSE]

\* lines 966-967 and 1002-1003: the stream state follows the task's text
StreamNext(old, new) ==
    IF new.content # old.content /\ stream_states.present
    THEN [stream_states EXCEPT !.content = new.content]
    ELSE stream_states

\* lines 988-992 and 1015-1019: the batched commit
Batched(r) ==
    IF r.chunks_since_commit >= CHUNK_COMMIT_INTERVAL
    THEN [r EXCEPT !.block_text = r.content, !.chunks_since_commit = 0]
    ELSE [r EXCEPT !.block_text = r.content]

BatchedDb(r, tk) ==
    IF r.chunks_since_commit >= CHUNK_COMMIT_INTERVAL THEN Flush(db, r.conn, tk) ELSE db

\* lines 783-792: assistant_text_start, outside the try; then agent.run starts
StartSend(t) ==
    LET r == task[t]
        c == r.conn
        go == IterStart([r EXCEPT !.event = conn[c].cancel_event])
    IN  /\ r.pc = "start_send" /\ ~r.must_cancel
        /\ frames' = frames
        /\ task' = [task EXCEPT ![t] =
              Sent(t, IF SendOK(c) THEN go ELSE [r EXCEPT !.pc = "exc_commit"])]
        /\ stream_states' = IF SendOK(c) THEN StreamNext(r, go) ELSE stream_states
        /\ UNCHANGED <<agent_vars, pool_vars, session_vars, tool_vars, link_vars>>
        /\ UNCHANGED <<conn, db, latest, registry, info, chunk_buffers, streams,
                       events, extras>>

\* the deltas the model streams produced so far
Produced == Sum([u \in Tasks |-> task[u].deltas], MaxTasks)

\* executor.py lines 158-184 with chat_handler.py lines 956-979: a text
\* delta, while the model streams have produced fewer than limit
LlmTextWithin(t, limit) ==
    LET r == task[t]
        d == Produced + 1
        got == [r EXCEPT !.pc = "chunk_send", !.content = Append(@, d), !.deltas = @ + 1,
                         !.full_response = @ + 1, !.chunks_since_commit = @ + 1]
    IN  /\ r.pc = "llm" /\ ~r.must_cancel /\ Produced < limit
        /\ IF CancelSeen(r)
           THEN /\ task' = [task EXCEPT ![t] = Scope([r EXCEPT !.pc = "cancel_send", !.cancelled = TRUE])]
                /\ UNCHANGED <<stream_states, chunk_buffers>>
           ELSE /\ task' = [task EXCEPT ![t] = Scope(got)]
                /\ stream_states' = StreamNext(r, got)
                /\ chunk_buffers' =
                     [present |-> TRUE,
                      chunks |-> (IF chunk_buffers.present THEN chunk_buffers.chunks ELSE <<>>)
                                 \o <<Frame("chunk", t, r.block, <<d>>)>>]
        /\ UNCHANGED <<agent_vars, pool_vars, session_vars, tool_vars, link_vars>>
        /\ UNCHANGED <<conn, frames, db, latest, registry, info, streams, events, extras>>

LlmText(t) == LlmTextWithin(t, MaxDeltas)

\* executor.py lines 163-171 and 186-201: a function-call delta
LlmCall(t) ==
    LET r == task[t]
    IN  /\ r.pc = "llm" /\ ~r.must_cancel /\ ~r.tool_call /\ extras < MaxExtras
        /\ extras' = extras + 1
        /\ task' = [task EXCEPT ![t] =
             IF CancelSeen(r) THEN [r EXCEPT !.pc = "cancel_send", !.cancelled = TRUE]
             ELSE [r EXCEPT !.tool_call = TRUE]]
        /\ UNCHANGED <<agent_vars, pool_vars, session_vars, tool_vars, link_vars>>
        /\ UNCHANGED <<conn, frames, db, latest, registry, info, stream_states,
                       chunk_buffers, streams, events>>

\* executor.py lines 203-245 and 352-367: the model stream ended
LlmEnd(t) ==
    LET r == task[t]
        c == r.conn
    IN  /\ r.pc = "llm" /\ ~r.must_cancel
        /\ IF r.tool_call
           THEN /\ task' = [task EXCEPT ![t] = Scope([r EXCEPT !.pc = "tool"])]
                /\ conn' = conn
           ELSE IF r.full_response > 0
           THEN /\ task' = [task EXCEPT ![t] = Scope([r EXCEPT !.pc = "final_commit"])]
                /\ conn' = [conn EXCEPT ![c].cancel_event = 0]
           ELSE /\ task' = [task EXCEPT ![t] = Scope([r EXCEPT !.pc = "err_send", !.has_error = TRUE])]
                /\ conn' = conn
        /\ UNCHANGED <<agent_vars, pool_vars, session_vars, tool_vars, link_vars>>
        /\ UNCHANGED <<frames, db, latest, registry, info, stream_states,
                       chunk_buffers, streams, events, extras>>

\* executor.py lines 369-378 with chat_handler.py lines 1021-1025: the model
\* stream raised
LlmFail(t) ==
    LET r == task[t]
    IN  /\ r.pc = "llm" /\ ~r.must_cancel /\ extras < MaxExtras
        /\ extras' = extras + 1
        /\ task' = [task EXCEPT ![t] = Scope([r EXCEPT !.pc = "err_send", !.has_error = TRUE])]
        /\ UNCHANGED <<agent_vars, pool_vars, session_vars, tool_vars, link_vars>>
        /\ UNCHANGED <<conn, frames, db, latest, registry, info, stream_states,
                       chunk_buffers, streams, events>>

\* lines 981-992: the chunk send returned or raised; line 984 swallows either
ChunkSend(t) ==
    LET r == task[t]
        c == r.conn
        nr == [Batched(r) EXCEPT !.pc = "llm", !.must_cancel = FALSE]
    IN  /\ r.pc = "chunk_send"
        /\ frames' = frames
        /\ task' = [task EXCEPT ![t] = Scope(Sent(t, nr))]
        /\ db' = BatchedDb(r, task')
        /\ UNCHANGED <<agent_vars, pool_vars, session_vars, tool_vars, link_vars>>
        /\ UNCHANGED <<conn, latest, registry, info, stream_states, chunk_buffers,
                       streams, events, extras>>


\* executor.py lines 241-312 with chat_handler.py lines 839-857: the tool
\* returned; a validation error goes to the next iteration, any other result,
\* a success or a failure, is an action event and the tool_call block takes
\* its number
ToolDone(t) ==
    LET r == task[t]
        c == r.conn
        again == IterStart(r)
    IN  /\ r.pc = "tool" /\ ~r.must_cancel
        /\ \E res \in {"invalid", "returned", "failed"} :
             IF res = "invalid"
             THEN /\ task' = [task EXCEPT ![t] = Scope(again)]
                  /\ stream_states' = StreamNext(r, again)
                  /\ UNCHANGED <<conn, latest>>
             ELSE /\ task' = [task EXCEPT ![t] =
                        [Assigned(t, NextCached(c)) EXCEPT !.pc = "tc_write",
                                                           !.success = res = "returned"]]
                  /\ conn' = [conn EXCEPT ![c].seq_cache = NextCached(c)]
                  /\ latest' = latest
                  /\ stream_states' = stream_states
        /\ UNCHANGED <<agent_vars, pool_vars, session_vars, tool_vars, link_vars>>
        /\ UNCHANGED <<frames, db, registry, info, chunk_buffers, streams, events, extras>>

\* lines 847-857 (tool_call) and 889-901 (tool_result): the write of a block
\* created inside the event loop; a failed write leaves the try of line 791
ToolBlockWrite(t) ==
    LET r == task[t]
        c == r.conn
        call == r.pc = "tc_write"
    IN  /\ r.pc \in {"tc_write", "tr_write"} /\ ~r.must_cancel
        /\ \E ok \in (IF extras < MaxExtras THEN BOOLEAN ELSE {TRUE}) :
             /\ extras' = (IF ok THEN extras ELSE extras + 1)
             /\ IF ok
                THEN /\ db' = Written(t, IF call THEN "tool_call" ELSE "tool_result",
                                         IF call THEN 0 ELSE r.tool_block)
                     /\ task' = [task EXCEPT ![t] =
                           IF call THEN [r EXCEPT !.pc = "tc_send", !.tool_block = r.new_block]
                           ELSE [r EXCEPT !.pc = "tr_send"]]
                     /\ conn' = conn
                ELSE /\ db' = db
                     /\ task' = [task EXCEPT ![t] = Scope([r EXCEPT !.pc = "exc_commit"])]
                     /\ conn' = [conn EXCEPT ![c].cancel_event = 0]
        /\ UNCHANGED <<agent_vars, pool_vars, session_vars, tool_vars, link_vars>>
        /\ UNCHANGED <<frames, latest, registry, info, stream_states, chunk_buffers,
                       streams, events>>

\* lines 860-889: tool_call_block is sent (line 866 swallows a failure), the
\* observation event commits the call's status and the tool_result block
\* takes its number
ToolCallSend(t) ==
    LET r == task[t]
        c == r.conn
    IN  /\ r.pc = "tc_send"
        /\ frames' = frames
        /\ db' = Observed(Flush(db, c, task), r.tool_block, r.success)
        /\ task' = [task EXCEPT ![t] =
              Sent(t, [Assigned(t, NextCached(c)) EXCEPT !.pc = "tr_write",
                          !.must_cancel = FALSE, !.chunks_since_commit = 0])]
        /\ conn' = [conn EXCEPT ![c].seq_cache = NextCached(c)]
        /\ UNCHANGED <<agent_vars, pool_vars, session_vars, tool_vars, link_vars>>
        /\ UNCHANGED <<registry, info, stream_states, chunk_buffers, streams, events, extras, latest>>

\* lines 904-954 and executor.py lines 334-350: tool_result_block is sent
\* (line 910 swallows a failure) and the loop goes to its next iteration
ToolResultSend(t) ==
    LET r == task[t]
        c == r.conn
        again == IterStart([r EXCEPT !.tool_block = 0, !.must_cancel = FALSE])
    IN  /\ r.pc = "tr_send"
        /\ frames' = frames
        /\ task' = [task EXCEPT ![t] = Scope(Sent(t, again))]
        /\ stream_states' = StreamNext(r, again)
        /\ UNCHANGED <<agent_vars, pool_vars, session_vars, tool_vars, link_vars>>
        /\ UNCHANGED <<conn, db, latest, registry, info, chunk_buffers, streams,
                       events, extras>>

\* lines 1005-1019 and 1048-1049: the final_answer text is sent as a chunk
\* (line 1011 swallows a failure) and the event loop ends
FinalAnswerSend(t) ==
    LET r == task[t]
        c == r.conn
        nr == [Batched(r) EXCEPT !.pc = "final_commit", !.must_cancel = FALSE]
    IN  /\ r.pc = "fa_send"
        /\ frames' = frames
        /\ task' = [task EXCEPT ![t] = Scope(Sent(t, nr))]
        /\ db' = BatchedDb(r, task')
        /\ conn' = [conn EXCEPT ![c].cancel_event = 0]
        /\ UNCHANGED <<agent_vars, pool_vars, session_vars, tool_vars, link_vars>>
        /\ UNCHANGED <<latest, registry, info, stream_states, chunk_buffers, streams,
                       events, extras>>

\* lines 1027-1035 and 1041-1049: the error frame, or the cancelled frame of
\* the CancelledError branch; a failure is swallowed and the try is left
GuardedSend(t) ==
    LET r == task[t]
        c == r.conn
    IN  /\ r.pc \in {"err_send", "cancel_send2"}
        /\ frames' = frames
        /\ task' = [task EXCEPT ![t] =
              Sent(t, [r EXCEPT !.pc = "final_commit", !.must_cancel = FALSE])]
        /\ conn' = [conn EXCEPT ![c].cancel_event = 0]
        /\ UNCHANGED <<agent_vars, pool_vars, session_vars, tool_vars, link_vars>>
        /\ UNCHANGED <<db, latest, registry, info, stream_states, chunk_buffers, streams,
                       events, extras>>

\* lines 796-805: the cancelled frame of the cancelled event, inside the try
\* of line 791 but in no try of its own
CancelSend(t) ==
    LET r == task[t]
        c == r.conn
    IN  /\ r.pc = "cancel_send" /\ ~r.must_cancel
        /\ frames' = frames
        /\ task' = [task EXCEPT ![t] =
              Sent(t, [r EXCEPT !.pc = IF SendOK(c) THEN "final_commit" ELSE "exc_commit"])]
        /\ conn' = [conn EXCEPT ![c].cancel_event = 0]
        /\ UNCHANGED <<agent_vars, pool_vars, session_vars, tool_vars, link_vars>>
        /\ UNCHANGED <<db, latest, registry, info, stream_states, chunk_buffers, streams,
                       events, extras>>

\* lines 1056-1068: the final write of the assistant_text block, mark_finalized
FinalCommit(t) ==
    LET r == task[t]
        c == r.conn
    IN  /\ r.pc = "final_commit" /\ ~r.must_cancel
        /\ task' = [task EXCEPT ![t] = Scope([r EXCEPT !.pc = "end_send", !.block_text = r.content])]
        /\ db' = { IF b.id = r.block
                   THEN [b EXCEPT !.text = r.content, !.streaming = FALSE,
                                  !.has_error = r.has_error, !.cancelled = r.cancelled]
                   ELSE b : b \in Flush(db, c, task') }
        /\ streams' = [streams EXCEPT !.finalized = TRUE]
        /\ UNCHANGED <<agent_vars, pool_vars, session_vars, tool_vars, link_vars>>
        /\ UNCHANGED <<conn, frames, latest, registry, info, stream_states,
                       chunk_buffers, events, extras>>

\* lines 1081-1082
FinalStatus(r) ==
    IF r.cancelled THEN "cancelled" ELSE IF r.has_error THEN "error" ELSE "completed"

\* lines 1070-1095: assistant_text_end (line 1078 swallows a failure),
\* mark_completed, the stream state and the buffer are dropped, the task ends
EndSend(t) ==
    LET r == task[t]
        c == r.conn
    IN  /\ r.pc = "end_send"
        /\ frames' = frames
        /\ info' = MarkCompleted(FinalStatus(r))
        /\ stream_states' = Absent
        /\ chunk_buffers' = Absent
        /\ task' = [task EXCEPT ![t] = Scope(Sent(t, [r EXCEPT !.pc = "done", !.must_cancel = FALSE]))]
        /\ UNCHANGED <<agent_vars, pool_vars, session_vars, tool_vars, link_vars>>
        /\ UNCHANGED <<conn, db, latest, registry, streams, events, extras>>

\* _handle_agent_response lines 608-641: the implementation raised; the block
\* found is marked as ended with an error and committed
ExcCommit(t) ==
    LET r == task[t]
        c == r.conn
    IN  /\ r.pc = "exc_commit" /\ ~r.must_cancel
        /\ db' = { IF b.id = LatestAssistant
                   THEN [b EXCEPT !.streaming = FALSE, !.has_error = TRUE, !.cancelled = FALSE]
                   ELSE b : b \in (IF LatestAssistant = 0 THEN db ELSE Flush(db, c, task)) }
        /\ task' = [task EXCEPT ![t] = Scope([r EXCEPT !.pc = "exc_send1"])]
        /\ UNCHANGED <<agent_vars, pool_vars, session_vars, tool_vars, link_vars>>
        /\ UNCHANGED <<conn, frames, latest, registry, info, stream_states,
                       chunk_buffers, streams, events, extras>>

\* lines 643-651 and 391-398: error, then assistant_text_end, then the error
\* frame of _handle_user_message when one of them raised; none is in a try
ExcSend(t) ==
    LET r == task[t]
        c == r.conn
    IN  /\ r.pc \in {"exc_send1", "exc_send2", "um_err_send"} /\ ~r.must_cancel
        /\ frames' = frames
        /\ task' = [task EXCEPT ![t] = Scope(Sent(t, [r EXCEPT !.pc =
              IF SendOK(c)
              THEN (IF r.pc = "exc_send1" THEN "exc_send2" ELSE "done")
              ELSE (IF r.pc = "um_err_send" THEN "failed" ELSE "um_err_send")]))]
        /\ UNCHANGED <<agent_vars, pool_vars, session_vars, tool_vars, link_vars>>
        /\ UNCHANGED <<conn, db, latest, registry, info, stream_states, chunk_buffers,
                       streams, events, extras>>

\* the awaits inside the try of line 791 that no except clause of their own
\* guards: CancelledError reaches line 1037 from them
InTry == {"llm", "tool", "tc_write", "tr_write", "cancel_send"}

\* the awaits whose bare except swallows CancelledError
Swallowing == {"chunk_send", "tc_send", "tr_send", "fa_send", "err_send",
               "cancel_send2", "end_send"}

\* Task.cancel() made the await the task is suspended in raise CancelledError:
\* line 1037 catches it inside the try; everywhere else it ends the task
TaskCancelled(t) ==
    LET r == task[t]
        c == r.conn
        sending == r.pc \in {"user_send", "start_send", "cancel_send", "exc_send1",
                             "exc_send2", "um_err_send"}
    IN  /\ r.must_cancel /\ r.pc \notin Swallowing /\ ~TaskDone(t) /\ r.pc # "none"
        /\ frames' = frames
        /\ task' = [task EXCEPT ![t] =
              LET nr == IF r.pc \in InTry
                        THEN [r EXCEPT !.pc = "cancel_send2", !.cancelled = TRUE,
                                       !.must_cancel = FALSE]
                        ELSE [r EXCEPT !.pc = "cancelled", !.must_cancel = FALSE]
              IN  IF sending THEN Sent(t, nr) ELSE nr]
        /\ UNCHANGED <<agent_vars, pool_vars, session_vars, tool_vars, link_vars>>
        /\ UNCHANGED <<conn, db, latest, registry, info, stream_states, chunk_buffers,
                       streams, events, extras>>

\* ------------------------------------------------------ specification
Next ==
    \/ \E c \in Conns :
         \/ Connect(c)
         \/ AttachSynced(c)
         \/ AttachForwarded(c)
         \/ AttachWake(c)
         \/ ClientMessage(c)
         \/ ClientCancel(c)
         \/ ClientDisconnect(c)
         \/ LoopDisconnected(c)
    \/ \E t \in Tasks :
         \/ TaskStart(t)
         \/ UserSeq(t)
         \/ UserWrite(t)
         \/ UserSend(t)
         \/ Prep(t)
         \/ AsstWrite(t)
         \/ StartSend(t)
         \/ LlmText(t)
         \/ LlmCall(t)
         \/ LlmEnd(t)
         \/ LlmFail(t)
         \/ ChunkSend(t)
         \/ ToolDone(t)
         \/ ToolBlockWrite(t)
         \/ ToolCallSend(t)
         \/ ToolResultSend(t)
         \/ FinalAnswerSend(t)
         \/ GuardedSend(t)
         \/ CancelSend(t)
         \/ FinalCommit(t)
         \/ EndSend(t)
         \/ ExcCommit(t)
         \/ ExcSend(t)
         \/ TaskCancelled(t)

Spec == Init /\ [][Next]_vars

\* ------------------------------------------------------ one turn, at length
\* a text delta of a turn whose model stream is long
LlmTextLong(t) == LlmTextWithin(t, MaxBatchDeltas)

\* the steps of a task other than a text delta
TaskStep(t) ==
    \/ TaskStart(t)
    \/ UserSeq(t)
    \/ UserWrite(t)
    \/ UserSend(t)
    \/ Prep(t)
    \/ AsstWrite(t)
    \/ StartSend(t)
    \/ LlmCall(t)
    \/ LlmEnd(t)
    \/ LlmFail(t)
    \/ ChunkSend(t)
    \/ ToolDone(t)
    \/ ToolBlockWrite(t)
    \/ ToolCallSend(t)
    \/ ToolResultSend(t)
    \/ FinalAnswerSend(t)
    \/ GuardedSend(t)
    \/ CancelSend(t)
    \/ FinalCommit(t)
    \/ EndSend(t)
    \/ ExcCommit(t)
    \/ ExcSend(t)
    \/ TaskCancelled(t)

\* one connection and the one message frame it sends
OneClient ==
    \/ Connect(1)
    \/ task[1].pc = "none" /\ ClientMessage(1)
    \/ ClientCancel(1)
    \/ ClientDisconnect(1)
    \/ LoopDisconnected(1)

\* one client and its one turn, whose model stream has up to MaxBatchDeltas
\* text deltas
BatchNext == OneClient \/ TaskStep(1) \/ LlmTextLong(1)

BatchSpec == Init /\ [][BatchNext]_vars

\* one client and its one turn; the event loop runs a task that can take a
\* step, and a model stream ends
TurnNext == OneClient \/ TaskStep(1) \/ LlmText(1)

TurnSpec == Init /\ [][TurnNext]_vars /\ WF_vars(TaskStep(1))

\* ------------------------------------------------------ ReActAgent.run
\* an event as the consumer sees it
Event(type, tool, content, success) ==
    [type |-> type, tool |-> tool, content |-> content, success |-> success]

\* the consumer of run(), `async for event in agent.run(...)` (chat_handler.py
\* line 792): it persists a tool_call unit for an action event (lines 839-857)
\* and a tool_result unit for an observation event (lines 870-901)
Receive(em, e) ==
    [em EXCEPT !.last = e.type,
               !.iter = @ \o <<e>>,
               !.after_cancel = IF agent.cancel_event THEN @ \cup {e.type} ELSE @,
               !.final_answers = IF e.type = "final_answer" THEN @ + 1 ELSE @,
               !.tool_call = IF e.type = "action" THEN @ + 1 ELSE @,
               !.tool_result = IF e.type = "observation" THEN @ + 1 ELSE @,
               !.failed_result = IF e.type = "observation" /\ ~e.success
                                 THEN @ + 1 ELSE @]

\* the locals of the iteration that nothing reads once its stream is handled
Handled(a) == [a EXCEPT !.tool_calls = NoCalls, !.chunk_count = 0, !.deltas = <<>>,
                        !.function_args = <<>>, !.args = <<>>]

\* run() has returned
Returned(a, how) == [Handled(a) EXCEPT !.pc = "done", !.ended = how]

\* the events of an iteration that is over, without their contents
Closed(em) ==
    [em EXCEPT !.iter = [i \in 1..Len(@) |-> Event(@[i].type, None, <<>>, TRUE)]]

\* lines 39-68: ReActAgent(llm_provider, tool_registry, max_iterations = m)
Construct(m) ==
    /\ agent.pc = "none"
    /\ agent' = [agent EXCEPT !.pc = "ready", !.max_iterations = m]
    /\ UNCHANGED <<emitted, chat_vars, pool_vars, session_vars, tool_vars, link_vars>>

\* lines 115-130: run() is entered and builds its messages
RunStart ==
    /\ agent.pc = "ready"
    /\ agent' = [agent EXCEPT !.pc = "top", !.iteration = 0]
    /\ UNCHANGED <<emitted, chat_vars, pool_vars, session_vars, tool_vars, link_vars>>

\* cancel_event.set() by the owner of the run (chat_handler.py line 276)
SetCancel ==
    /\ agent.pc \notin {"none", "done"}
    /\ ~agent.cancel_event
    /\ agent' = [agent EXCEPT !.cancel_event = TRUE]
    /\ UNCHANGED <<emitted, chat_vars, pool_vars, session_vars, tool_vars, link_vars>>

\* a mutant of LoopContinues: one iteration too many
LoopRunsOver(iteration, max) == iteration <= max

\* line 132: for iteration in range(self.max_iterations)
LoopContinues(iteration, max) == iteration < max

\* lines 132-158 and 380-385: the loop head.  The loop is over: the
\* final_answer event; the cancel event is set: the cancelled event; else the
\* model stream of the iteration is opened
IterationTop ==
    /\ agent.pc = "top"
    /\ IF ~LoopContinues(agent.iteration, agent.max_iterations)
       THEN /\ agent' = Returned(agent, "max_iterations")
            /\ emitted' = Receive(emitted, Event("final_answer", None, <<>>, TRUE))
       ELSE IF agent.cancel_event
       THEN /\ agent' = Returned(agent, "cancelled")
            /\ emitted' = Receive(emitted, Event("cancelled", None, <<>>, TRUE))
       ELSE /\ agent' = [agent EXCEPT !.pc = "stream", !.full_response = <<>>,
                            !.tool_calls = NoCalls, !.chunk_count = 0,
                            !.deltas = <<>>, !.function_name = None,
                            !.function_args = <<>>, !.args = <<>>,
                            !.result = "none", !.appended = <<>>, !.indices = 0]
            /\ emitted' = [emitted EXCEPT !.iter = <<>>, !.llm_calls = @ + 1,
                                          !.iter_execs = 0]
    /\ UNCHANGED <<chat_vars, pool_vars, session_vars, tool_vars, link_vars>>

\* lines 163-171: the cancel check made on every item of the stream
CancelledInStream ==
    /\ agent' = Returned(agent, "cancelled")
    /\ emitted' = Receive(emitted, Event("cancelled", None, agent.full_response, TRUE))

\* lines 158-184: the stream yields a text chunk; the k-th item of a stream is
\* the text <<k>>
StreamText ==
    LET k == agent.chunk_count + 1
    IN  /\ agent.pc = "stream"
        /\ agent.chunk_count < MaxStream /\ agent.items < MaxItems
        /\ IF agent.cancel_event
           THEN CancelledInStream
           ELSE /\ agent' = [agent EXCEPT !.chunk_count = k, !.items = @ + 1,
                                !.full_response = @ \o <<k>>]
                /\ emitted' = Receive(emitted, Event("chunk", None, <<k>>, TRUE))
        /\ UNCHANGED <<chat_vars, pool_vars, session_vars, tool_vars, link_vars>>

\* line 190: index = chunk.get("index", 0)
DeltaIndex(d) == IF d.index = NoIndex THEN 0 ELSE d.index

\* lines 192-201: one function-call delta is folded into tool_calls; the
\* arguments fragment of the k-th item of a stream is <<k>>
Accumulate(tc, d, k) ==
    LET index == DeltaIndex(d)
        entry == IF index \in DOMAIN tc THEN tc[index]
                 ELSE [name |-> None, arguments |-> <<>>]
        named == IF d.name # None THEN [entry EXCEPT !.name = d.name] ELSE entry
        filled == IF d.arguments THEN [named EXCEPT !.arguments = @ \o <<k>>]
                  ELSE named
    IN  [i \in DOMAIN tc \cup {index} |-> IF i = index THEN filled ELSE tc[i]]

\* the function-call deltas a stream can carry (provider.py lines 160-169)
Deltas == [index : {NoIndex} \cup (0..MaxIndex), name : Names, arguments : BOOLEAN]

\* lines 158-171 and 186-201: the stream yields a function-call delta
StreamCall ==
    LET k == agent.chunk_count + 1
    IN  /\ agent.pc = "stream"
        /\ agent.chunk_count < MaxStream /\ agent.items < MaxItems
        /\ IF agent.cancel_event
           THEN CancelledInStream
           ELSE /\ \E d \in Deltas :
                     agent' = [agent EXCEPT !.chunk_count = k, !.items = @ + 1,
                                  !.tool_calls = Accumulate(@, d, k),
                                  !.deltas = @ \o <<[index |-> d.index, name |-> d.name,
                                                     arguments |-> IF d.arguments
                                                                   THEN <<k>> ELSE <<>>]>>]
                /\ UNCHANGED emitted
        /\ UNCHANGED <<chat_vars, pool_vars, session_vars, tool_vars, link_vars>>

\* lines 369-378: generate_stream raises; the error event
StreamFail ==
    /\ agent.pc = "stream"
    /\ agent' = Returned(agent, "exception")
    /\ emitted' = Receive(emitted, Event("error", None, <<>>, TRUE))
    /\ UNCHANGED <<chat_vars, pool_vars, session_vars, tool_vars, link_vars>>

\* a mutant of first_index: the last call is taken
last_index(tc) == CHOOSE i \in DOMAIN tc : \A j \in DOMAIN tc : j <= i

\* line 211: first_index = min(tool_calls.keys())
first_index(tc) == CHOOSE i \in DOMAIN tc : \A j \in DOMAIN tc : i <= j

\* a mutant of has_tool: every name is taken for a registered tool
has_any(name) == TRUE

\* ToolRegistry.has_tool
has_tool(name) == name \in Registered

\* lines 209-219: the response names a tool the agent will call
CallsTool(a) ==
    /\ a.tool_calls # NoCalls
    /\ a.tool_calls[first_index(a.tool_calls)].name # None
    /\ has_tool(a.tool_calls[first_index(a.tool_calls)].name)

\* lines 236-239: json.loads of the assembled arguments, {} when they do not
\* decode; an empty string never decodes
Decoded(function_args, decodes) == IF decodes THEN function_args ELSE <<>>

\* a mutant of FinalAnswer: the loop goes on after a final text
FinalAnswerLoops(a) == [a EXCEPT !.pc = "top", !.iteration = @ + 1]

\* lines 353-358: a text response without a call ends the run; its text went
\* out as chunk events already and no further event is emitted
FinalAnswer(a) == Returned(a, "final")

\* lines 203-245 and 352-367: the stream is exhausted; indices keeps
\* len(tool_calls) of line 216
StreamEnd ==
    LET a == [agent EXCEPT !.indices = Cardinality(DOMAIN agent.tool_calls)]
    IN  /\ agent.pc = "stream"
        /\ IF CallsTool(a)
           THEN LET tool_call == a.tool_calls[first_index(a.tool_calls)]
                IN  /\ \E decodes \in (IF tool_call.arguments = <<>>
                                        THEN {FALSE} ELSE BOOLEAN) :
                         agent' = [a EXCEPT !.pc = "tool",
                                      !.function_name = tool_call.name,
                                      !.function_args = tool_call.arguments,
                                      !.args = Decoded(tool_call.arguments, decodes),
                                      !.appended = @ \o <<"function_call">>]
                    /\ emitted' = [emitted EXCEPT !.tool_execs = @ + 1,
                                                  !.iter_execs = @ + 1]
           ELSE IF a.full_response # <<>>
           THEN /\ agent' = FinalAnswer(a)
                /\ UNCHANGED emitted
           ELSE /\ agent' = Returned(a, "no_response")
                /\ emitted' = Receive(emitted, Event("error", None, <<>>, TRUE))
        /\ UNCHANGED <<chat_vars, pool_vars, session_vars, tool_vars, link_vars>>

\* a mutant of EscalationDue: the hint comes one failure late
EscalationLate(count) == count > max_validation_retries

\* line 255: self.validation_retry_count >= self.max_validation_retries
EscalationDue(count) == count >= max_validation_retries

\* line 288: self.tool_call_history[-self.max_same_tool_retries:]
recent_calls(history) ==
    SubSeq(history, Max({1, Len(history) - max_same_tool_retries + 1}), Len(history))

\* a mutant of LoopDetected: no repetition is ever detected
LoopNever(history) == FALSE

\* line 289: the same tool max_same_tool_retries times in a row
LoopDetected(history) ==
    /\ Len(recent_calls(history)) = max_same_tool_retries
    /\ Cardinality({recent_calls(history)[i] : i \in 1..Len(recent_calls(history))}) = 1

\* line 279 and 303: continue
Continue(a) == [Handled(a) EXCEPT !.pc = "top", !.iteration = @ + 1,
                                  !.full_response = <<>>]

\* lines 248-279: a validation error is counted and fed back to the model,
\* with the hint when the count reaches the limit
ValidationError(a) ==
    LET count == a.validation_retry_count + 1
    IN  IF EscalationDue(count)
        THEN Continue([a EXCEPT !.validation_retry_count = 0,
                                !.appended = @ \o <<"escalation">>])
        ELSE Continue([a EXCEPT !.validation_retry_count = count,
                                !.appended = @ \o <<"validation_failed">>])

\* a mutant of HandledInternally: a validation error is shown like any result
ShownAlways(result) == FALSE

\* lines 247-248: validation errors are handled internally (not shown)
HandledInternally(result) == result = "validation_error"

\* lines 245-312: validate_and_execute returns
ToolReturn ==
    /\ agent.pc = "tool"
    /\ \E result \in {"validation_error", "success", "failure"} :
         LET a == [agent EXCEPT !.result = result]
             history == a.tool_call_history \o <<a.function_name>>
         IN  IF HandledInternally(result)
             THEN /\ agent' = ValidationError(a)
                  /\ emitted' = [Closed(emitted) EXCEPT !.failures = @ + 1,
                                    !.streak = @ + 1,
                                    !.escalations =
                                        IF EscalationDue(a.validation_retry_count + 1)
                                        THEN @ + 1 ELSE @]
             ELSE IF LoopDetected(history)
             THEN /\ agent' = Continue([a EXCEPT !.validation_retry_count = 0,
                                           !.tool_call_history = <<>>,
                                           !.appended = @ \o <<"loop_detected">>])
                  /\ emitted' = [Closed(emitted) EXCEPT !.streak = 0]
             ELSE /\ agent' = [Handled(a) EXCEPT !.pc = "observe",
                                  !.validation_retry_count = 0,
                                  !.tool_call_history = history]
                  /\ emitted' = Receive([emitted EXCEPT !.streak = 0],
                                        Event("action", a.function_name, a.args, TRUE))
    /\ UNCHANGED <<chat_vars, pool_vars, session_vars, tool_vars, link_vars>>

\* lines 369-378: validate_and_execute raises; the error event
ToolRaise ==
    /\ agent.pc = "tool"
    /\ agent' = Returned(agent, "exception")
    /\ emitted' = Receive(emitted, Event("error", None, <<>>, TRUE))
    /\ UNCHANGED <<chat_vars, pool_vars, session_vars, tool_vars, link_vars>>

\* lines 314-350: the observation event, the result goes to the context and
\* the loop goes on
Observe ==
    /\ agent.pc = "observe"
    /\ agent' = Continue([agent EXCEPT !.appended = @ \o <<"returned">>])
    /\ emitted' = Closed(Receive(emitted, Event("observation", agent.function_name,
                                                <<>>, agent.result = "success")))
    /\ UNCHANGED <<chat_vars, pool_vars, session_vars, tool_vars, link_vars>>

AgentNext ==
    \/ \E m \in 1..MaxAgentIterations : Construct(m)
    \/ RunStart
    \/ SetCancel
    \/ IterationTop
    \/ StreamText
    \/ StreamCall
    \/ StreamFail
    \/ StreamEnd
    \/ ToolReturn
    \/ ToolRaise
    \/ Observe

AgentSpec == Init /\ [][AgentNext]_vars

\* ------------------------------------------- ReActAgent.run, a long run
\* lines 158-171 and 186-201: the stream of the iteration yields its one
\* item, a function-call delta of index 0 that names a registered tool
StreamNamedCall ==
    LET k == agent.chunk_count + 1
    IN  /\ agent.pc = "stream"
        /\ agent.chunk_count = 0
        /\ IF agent.cancel_event
           THEN CancelledInStream
           ELSE /\ \E name \in Registered, arguments \in BOOLEAN :
                     LET d == [index |-> 0, name |-> name, arguments |-> arguments]
                     IN  agent' = [agent EXCEPT !.chunk_count = k, !.items = @ + 1,
                                      !.tool_calls = Accumulate(@, d, k),
                                      !.deltas = @ \o <<[index |-> d.index, name |-> d.name,
                                                         arguments |-> IF d.arguments
                                                                       THEN <<k>> ELSE <<>>]>>]
                /\ UNCHANGED emitted
        /\ UNCHANGED <<chat_vars, pool_vars, session_vars, tool_vars, link_vars>>

\* one agent of max_iterations = MaxLoopIterations whose model answers every
\* iteration with one call of a registered tool
LoopNext ==
    \/ Construct(MaxLoopIterations)
    \/ RunStart
    \/ IterationTop
    \/ StreamNamedCall
    \/ StreamEnd
    \/ ToolReturn
    \/ Observe

LoopSpec == Init /\ [][LoopNext]_vars

\* ------------------------------------------------ ContainerPoolManager
\* where create_container is suspended, and where a caller has no call under way
Suspended == {"workspace", "volume"}
Finished == {"idle", "returned", "raised"}

\* the status the engine reports for a container
Status(id) ==
    IF \E c \in docker.containers : c.id = id
    THEN (CHOOSE c \in docker.containers : c.id = id).status
    ELSE "absent"

\* mutants of is_running: the cached handle is trusted, and never trusted
AlwaysRunning(id, reloaded) == TRUE
NeverRunning(id, reloaded) == FALSE

\* container.py lines 25-32: reload(), then status == "running"; False when
\* reload() raises, as it does for a container that is gone
is_running(id, reloaded) == reloaded /\ Status(id) = "running"

\* the engine stops a container, and removes one
Stop(cs, id) == {IF c.id = id THEN [c EXCEPT !.status = "exited"] ELSE c : c \in cs}
Remove(cs, id) == {c \in cs : c.id # id}

\* manager.py lines 250-254 with container.py lines 241-253: stop(), then
\* remove(), each swallowing what the engine raises
Destroy(cs, id, fault) ==
    LET stopped == IF fault = "stop" THEN cs ELSE Stop(cs, id)
    IN  IF fault = "remove" THEN stopped ELSE Remove(stopped, id)

\* a mutant of OrphanRemoved: the container found under the name is left alone
OrphanKept(cs, existing, fault) == cs

\* manager.py lines 133-142: existing.stop(timeout=2), existing.remove(force=
\* True) in one try: when stop raises remove is not reached
OrphanRemoved(cs, existing, fault) ==
    IF fault = "orphan_stop" THEN cs
    ELSE IF fault = "orphan_remove" THEN Stop(cs, existing)
    ELSE Remove(Stop(cs, existing), existing)

\* the engine or the storage fails one more call
Failed(d, fault) == [d EXCEPT !.faults = IF fault = "none" THEN @ ELSE @ + 1]

\* manager.py lines 121-148: create_container up to its first await.  A
\* tracked handle that is running is returned; one that is not is destroyed;
\* a container found under the name is removed; an env_type that env_images
\* does not know raises
CreateBegin(k, known_env, packages, fault) ==
    LET tracked == active_containers
        running == tracked # 0 /\ is_running(tracked, fault # "reload")
        dead == tracked # 0 /\ ~running
        destroyed == IF dead THEN Destroy(docker.containers, tracked, fault)
                     ELSE docker.containers
        orphan == IF destroyed = {} THEN 0 ELSE (CHOOSE c \in destroyed : TRUE).id
        cleared == IF orphan = 0 THEN destroyed
                   ELSE OrphanRemoved(destroyed, orphan, fault)
        attempted == {"none"}
                     \cup (IF tracked # 0 THEN {"reload"} ELSE {})
                     \cup (IF dead THEN {"stop", "remove"} ELSE {})
                     \cup (IF orphan # 0 THEN {"orphan_stop", "orphan_remove"} ELSE {})
        others == {j \in Callers \ {k} : calls[j].pc \in Suspended}
        call == [InitCall EXCEPT !.op = "create", !.known_env = known_env,
                                 !.packages = packages, !.tracked = tracked,
                                 !.status = Status(tracked),
                                 !.faulted = fault # "none",
                                 !.overlapped = others # {},
                                 !.at = pool_ops + 1]
    IN  /\ calls[k].pc \in Finished
        /\ pool_ops < MaxCalls
        /\ fault \in attempted
        /\ fault # "none" => docker.faults < MaxFaults
        /\ pool_ops' = pool_ops + 1
        /\ IF running
           THEN /\ calls' = [calls EXCEPT ![k] = [call EXCEPT !.pc = "returned",
                                                              !.result = tracked]]
                /\ UNCHANGED <<active_containers, docker>>
           ELSE /\ active_containers' = 0
                /\ docker' = Failed([docker EXCEPT !.containers = cleared], fault)
                /\ calls' = [j \in Callers |->
                               IF j = k
                               THEN [call EXCEPT !.orphan = orphan,
                                        !.pc = IF known_env THEN "workspace"
                                               ELSE "raised"]
                               ELSE IF j \in others
                               THEN [calls[j] EXCEPT !.overlapped = TRUE]
                               ELSE calls[j]]
        /\ UNCHANGED <<chat_vars, agent_vars, session_vars, tool_vars, link_vars>>

\* manager.py lines 148-155: storage.create_workspace returns or raises; the
\* call goes on to its second await
CreateWorkspace(k, fault) ==
    /\ calls[k].pc = "workspace"
    /\ fault # "none" => docker.faults < MaxFaults
    /\ calls' = [calls EXCEPT ![k] = [@ EXCEPT !.pc = IF fault = "none" THEN "volume"
                                                     ELSE "raised",
                                               !.faulted = @ \/ fault # "none"]]
    /\ docker' = Failed(docker, fault)
    /\ UNCHANGED <<active_containers, pool_ops, chat_vars, agent_vars, session_vars, tool_vars, link_vars>>

\* a mutant of NameTaken: containers are started without a name
Unnamed(cs) == FALSE

\* manager.py line 182: name=f"openclaudeui-sandbox-{session_id}"; the engine
\* refuses a second container of a name
NameTaken(cs) == cs # {}

\* manager.py lines 155-207: ensure_volume returns or raises; containers.run
\* under the session's name, which the engine refuses while a container of
\* that name exists; the installation of packages; the handle is tracked and
\* returned.  What is raised once the container runs leaves it untracked
CreateRun(k, fault) ==
    LET id == docker.started + 1
        conflict == NameTaken(docker.containers)
        started == fault \notin {"volume", "run"} /\ ~conflict
        tracked == started /\ fault # "install"
    IN  /\ calls[k].pc = "volume"
        /\ docker.started < MaxContainers
        /\ fault \in {"run", "install"} => ~conflict
        /\ fault = "install" => calls[k].packages
        /\ fault # "none" => docker.faults < MaxFaults
        /\ docker' = Failed([docker EXCEPT
                               !.containers = IF started
                                              THEN @ \cup {[id |-> id, status |-> "running"]}
                                              ELSE @,
                               !.started = IF started THEN id ELSE @], fault)
        /\ active_containers' = IF tracked THEN id ELSE active_containers
        /\ calls' = [calls EXCEPT ![k] = [@ EXCEPT !.pc = IF tracked THEN "returned"
                                                         ELSE "raised",
                                                   !.result = IF tracked THEN id ELSE 0,
                                                   !.faulted = @ \/ fault # "none"]]
        /\ UNCHANGED <<pool_ops, chat_vars, agent_vars, session_vars, tool_vars, link_vars>>

\* a mutant of Popped: the entry is left in the map
Kept(tracked) == tracked

\* manager.py line 249: self.active_containers.pop(session_id, None)
Popped(tracked) == 0

\* manager.py lines 239-258: destroy_container; SandboxContainer.stop and
\* remove swallow what the engine raises, so True is returned on every path
DestroyContainer(k, fault) ==
    LET tracked == active_containers
    IN  /\ calls[k].pc \in Finished
        /\ pool_ops < MaxCalls
        /\ fault # "none" => tracked # 0 /\ docker.faults < MaxFaults
        /\ pool_ops' = pool_ops + 1
        /\ active_containers' = Popped(tracked)
        /\ docker' = Failed([docker EXCEPT
                               !.containers = IF tracked # 0
                                              THEN Destroy(@, tracked, fault)
                                              ELSE @], fault)
        /\ calls' = [calls EXCEPT ![k] = [InitCall EXCEPT !.op = "destroy",
                                             !.pc = "returned", !.success = TRUE,
                                             !.tracked = tracked,
                                             !.status = Status(tracked),
                                             !.faulted = fault # "none",
                                             !.at = pool_ops + 1]]
        /\ UNCHANGED <<chat_vars, agent_vars, session_vars, tool_vars, link_vars>>

\* manager.py lines 209-222: get_container, the handle when it is tracked and
\* running, else None (0)
GetContainer(k, fault) ==
    LET tracked == active_containers
        found == tracked # 0 /\ is_running(tracked, fault # "reload")
    IN  /\ calls[k].pc \in Finished
        /\ pool_ops < MaxCalls
        /\ fault # "none" => tracked # 0 /\ docker.faults < MaxFaults
        /\ pool_ops' = pool_ops + 1
        /\ docker' = Failed(docker, fault)
        /\ calls' = [calls EXCEPT ![k] = [InitCall EXCEPT !.op = "get",
                                             !.pc = "returned",
                                             !.result = IF found THEN tracked ELSE 0,
                                             !.tracked = tracked,
                                             !.status = Status(tracked),
                                             !.faulted = fault # "none",
                                             !.at = pool_ops + 1]]
        /\ UNCHANGED <<active_containers, chat_vars, agent_vars, session_vars, tool_vars, link_vars>>

\* container.py lines 226-239: reset() calls asyncio.run(self.execute(...));
\* reset_container is a coroutine, so a loop is running, asyncio.run raises
\* RuntimeError before the command is issued and reset() returns False
reset(tracked) == FALSE

\* manager.py lines 224-237: reset_container, container.reset() for a tracked
\* session and False for one that is not
ResetContainer(k) ==
    LET tracked == active_containers
    IN  /\ calls[k].pc \in Finished
        /\ pool_ops < MaxCalls
        /\ pool_ops' = pool_ops + 1
        /\ calls' = [calls EXCEPT ![k] = [InitCall EXCEPT !.op = "reset",
                                             !.pc = "returned",
                                             !.success = IF tracked # 0
                                                         THEN reset(tracked)
                                                         ELSE FALSE,
                                             !.tracked = tracked,
                                             !.status = Status(tracked),
                                             !.at = pool_ops + 1]]
        /\ UNCHANGED <<active_containers, docker, chat_vars, agent_vars, session_vars, tool_vars, link_vars>>

\* a container exits without the pool having stopped it
ContainerExits ==
    /\ \E c \in docker.containers :
         /\ c.status = "running"
         /\ docker' = [docker EXCEPT !.containers = Stop(@, c.id)]
    /\ UNCHANGED <<active_containers, calls, pool_ops, chat_vars, agent_vars, session_vars, tool_vars, link_vars>>

\* a container is removed without the pool having removed it
ContainerRemoved ==
    /\ \E c \in docker.containers :
         docker' = [docker EXCEPT !.containers = Remove(@, c.id)]
    /\ UNCHANGED <<active_containers, calls, pool_ops, chat_vars, agent_vars, session_vars, tool_vars, link_vars>>

\* manager.py lines 287-295: the process starts anew with an empty pool; the
\* calls of the old process are gone and the engine keeps its containers
Restart ==
    /\ active_containers # 0 \/ calls # InitCalls
    /\ active_containers' = InitActive
    /\ calls' = InitCalls
    /\ UNCHANGED <<docker, pool_ops, chat_vars, agent_vars, session_vars, tool_vars, link_vars>>

PoolNext ==
    \/ \E k \in Callers, known_env \in BOOLEAN, packages \in BOOLEAN,
          fault \in {"none", "reload", "stop", "remove", "orphan_stop", "orphan_remove"} :
         CreateBegin(k, known_env, packages, fault)
    \/ \E k \in Callers, fault \in {"none", "storage"} : CreateWorkspace(k, fault)
    \/ \E k \in Callers, fault \in {"none", "volume", "run", "install"} :
         CreateRun(k, fault)
    \/ \E k \in Callers, fault \in {"none", "stop", "remove"} : DestroyContainer(k, fault)
    \/ \E k \in Callers, fault \in {"none", "reload"} : GetContainer(k, fault)
    \/ \E k \in Callers : ResetContainer(k)
    \/ ContainerExits
    \/ ContainerRemoved
    \/ Restart

PoolSpec == Init /\ [][PoolNext]_vars

\* ------------------------------------------- the conversation and its turns
\* chat_handler.py lines 688-697 and 933-947: the tools that are registered
\* once the sandbox exists, each when enabled_tools names it
SandboxTools == {"bash", "file_read", "file_write", "file_edit", "search"}

\* environment_tool.py lines 99-112: two of the thirteen valid_types, and the
\* environment_type arguments a model supplies
valid_types == {"python3.13", "nodejs"}
Requested == valid_types \cup {"cobol"}

\* the function names a model calls, "none" for a final answer
Called == {"setup_environment", "bash", "none"}

\* the enabled_tools an agent configuration is updated to
Enabled == {{"bash", "search"}, {"edit_lines", "think"}}

\* chat_handler.py line 700: the registry of a conversation without an
\* environment holds SetupEnvironmentTool alone
SetupRegistry == {"setup_environment"}

\* chat_handler.py lines 688-697: register() for each sandbox tool that
\* enabled_tools names
SandboxRegistry(enabled_tools) == {t \in SandboxTools : t \in enabled_tools}

\* a mutant of Swapped: the registry is left as line 931 cleared it
Cleared(enabled_tools) == {}

\* chat_handler.py lines 931-947: tool_registry._tools = {}, then the
\* registrations; no await stands between them
Swapped(enabled_tools) == {} \cup SandboxRegistry(enabled_tools)

\* manager.py lines 209-222: get_container, the tracked handle when its
\* container is running, else None (0)
get_container ==
    IF active_containers # 0 /\ is_running(active_containers, TRUE)
    THEN active_containers ELSE 0

\* where a turn is suspended, and where it has ended
Ended == {"done", "failed", "cancelled"}
Awaiting == {"top", "stream", "execute", "update", "create", "workspace",
             "observe", "refresh"}

\* a tool execution is in flight: the agent awaits validate_and_execute
\* (executor.py line 245)
InFlight(turn) ==
    \/ turn.pc \in {"execute", "update"}
    \/ turn.pc \in {"create", "workspace"} /\ turn.site = "setup"

\* create_container has returned the handle (ok) or raised, to
\* chat_handler.py line 681 (start), environment_tool.py line 159 (setup,
\* whose except clause at line 189 makes a failed ToolResult of what is
\* raised) or chat_handler.py line 924 (swap)
Created(turn, ok) ==
    IF turn.site = "setup"
    THEN [turn EXCEPT !.pc = "observe", !.success = ok, !.site = "none"]
    ELSE IF ~ok
    THEN [turn EXCEPT !.pc = "failed", !.site = "none"]
    ELSE IF turn.site = "start"
    THEN [turn EXCEPT !.pc = "top", !.site = "none",
                      !.tool_registry = SandboxRegistry(turn.enabled_tools)]
    ELSE [turn EXCEPT !.pc = "top", !.site = "none", !.swapped = TRUE,
                      !.tool_registry = Swapped(turn.enabled_tools)]

\* projects.py: the agent configuration of the project is updated before a
\* connection loads it (chat_handler.py lines 226-231)
update_agent_config(enabled_tools) ==
    /\ agent_config = InitAgentConfig
    /\ \A k \in Turns : turns[k].pc = "idle"
    /\ agent_config' = [agent_config EXCEPT !.enabled_tools = enabled_tools]
    /\ UNCHANGED <<session, turns, chat_vars, agent_vars, pool_vars, tool_vars, link_vars>>

\* manager.py lines 33-60: env_images has an image for each of valid_types
\* manager.py lines 62-77: _ensure_image_exists finds the image of an
\* env_type that is a key of env_images; for any other string it raises
\* ValueError, and for a dict, which cannot be a key, env_images.get raises
\* TypeError
HasImage(env_type) == env_type \in valid_types

\* environment_tool.py lines 159-164: create_container(self._session_id,
\* session.project_id, environment_type, {})
SetupArgs(s, environment_type) ==
    [site |-> "setup", project_id |-> s.project_id, env_type |-> environment_type,
     environment_config |-> "empty"]

\* chat_handler.py lines 681-685 and 924-928: create_container(session_id,
\* session.environment_type, session.environment_config or {}).  The second
\* positional parameter of manager.py lines 102-108 is project_id and the
\* third env_type; environment_config keeps its default, None
TurnArgs(site, s) ==
    [site |-> site, project_id |-> s.environment_type,
     env_type |-> IF s.environment_config = NULL THEN "empty" ELSE s.environment_config,
     environment_config |-> NULL]

\* manager.py lines 121-148, called by a turn with the arguments args: a
\* tracked handle that is running is returned; one that is not is destroyed,
\* a container found under the name is removed, and _ensure_image_exists
\* raises or the call is suspended at its awaits
create_container(k, turn, args) ==
    LET tracked == active_containers
        running == tracked # 0 /\ is_running(tracked, TRUE)
        destroyed == IF tracked # 0 THEN Destroy(docker.containers, tracked, "none")
                     ELSE docker.containers
        orphan == IF destroyed = {} THEN 0 ELSE (CHOOSE c \in destroyed : TRUE).id
        cleared == IF orphan = 0 THEN destroyed
                   ELSE OrphanRemoved(destroyed, orphan, "none")
        called == [turn EXCEPT !.site = args.site, !.args = args]
    IN  IF running
        THEN /\ turns' = [turns EXCEPT ![k] = Created(called, TRUE)]
             /\ UNCHANGED <<active_containers, docker>>
        ELSE /\ active_containers' = 0
             /\ docker' = [docker EXCEPT !.containers = cleared]
             /\ turns' = [turns EXCEPT ![k] =
                    IF HasImage(args.env_type)
                    THEN [called EXCEPT !.pc = "workspace"]
                    ELSE Created(called, FALSE)]

\* chat_handler.py lines 664-707: the turn reads the session and builds its
\* own ToolRegistry: the sandbox tools when environment_type is set, after
\* get_container and, when that finds no running container,
\* create_container; else SetupEnvironmentTool alone
StartTurn(k) ==
    LET turn == [InitTurn EXCEPT !.enabled_tools = agent_config.enabled_tools]
    IN  /\ turns[k].pc = "idle"
        /\ session.exists
        /\ IF session.environment_type = NULL
           THEN /\ turns' = [turns EXCEPT ![k] =
                      [turn EXCEPT !.pc = "top", !.tool_registry = SetupRegistry]]
                /\ UNCHANGED <<active_containers, docker>>
           ELSE IF get_container # 0
           THEN /\ turns' = [turns EXCEPT ![k] =
                      [turn EXCEPT !.pc = "top",
                                   !.tool_registry = SandboxRegistry(turn.enabled_tools)]]
                /\ UNCHANGED <<active_containers, docker>>
           ELSE create_container(k, turn, TurnArgs("start", session))
        /\ UNCHANGED <<session, agent_config, calls, pool_ops, chat_vars, agent_vars, tool_vars, link_vars>>

\* environment_tool.py lines 157-164: the commit of the UPDATE has returned
\* and the tool calls create_container
TurnCreateBegin(k) ==
    /\ turns[k].pc = "create"
    /\ create_container(k, turns[k], SetupArgs(session, turns[k].requested))
    /\ UNCHANGED <<session, agent_config, calls, pool_ops, chat_vars, agent_vars, tool_vars, link_vars>>

\* manager.py lines 148-207, called by a turn: containers.run under the
\* session's name, refused while a container of that name exists or when the
\* engine fails; the handle is tracked and returned
TurnCreateRun(k, fault) ==
    LET id == docker.started + 1
        started == fault = "none" /\ ~NameTaken(docker.containers)
    IN  /\ turns[k].pc = "workspace"
        /\ docker.started < MaxContainers
        /\ fault # "none" => docker.faults < MaxFaults
        /\ docker' = Failed([docker EXCEPT
                               !.containers = IF started
                                              THEN @ \cup {[id |-> id, status |-> "running"]}
                                              ELSE @,
                               !.started = IF started THEN id ELSE @], fault)
        /\ active_containers' = IF started THEN id ELSE active_containers
        /\ turns' = [turns EXCEPT ![k] = Created(@, started)]
        /\ UNCHANGED <<session, agent_config, calls, pool_ops, chat_vars, agent_vars, tool_vars, link_vars>>

\* executor.py lines 132-148: an iteration begins, get_tools_for_llm() lists
\* the registry; the loop ends when max_iterations are used up
AgentLists(k) ==
    /\ turns[k].pc = "top"
    /\ turns' = [turns EXCEPT ![k] =
           IF @.iterations = MaxTurnIterations
           THEN [@ EXCEPT !.pc = "done"]
           ELSE [@ EXCEPT !.pc = "stream", !.iterations = @ + 1,
                          !.listed = turns[k].tool_registry]]
    /\ UNCHANGED <<session, agent_config, chat_vars, agent_vars, pool_vars, tool_vars, link_vars>>

\* executor.py lines 203-245: the stream is over; a function the registry
\* has (has_tool, line 219) is fetched (get, line 242) and executed, anything
\* else ends the turn
AgentCalls(k, name, requested) ==
    /\ turns[k].pc = "stream"
    /\ requested # NULL <=> name = "setup_environment"
    /\ turns' = [turns EXCEPT ![k] =
           IF name \in @.tool_registry
           THEN [@ EXCEPT !.pc = "execute", !.tool = name, !.requested = requested,
                          !.looked = turns[k].tool_registry]
           ELSE [@ EXCEPT !.pc = "done"]]
    /\ UNCHANGED <<session, agent_config, chat_vars, agent_vars, pool_vars, tool_vars, link_vars>>

\* environment_tool.py lines 97-147: an environment_type outside valid_types
\* fails; the session is read; a session that is gone, or has an
\* environment_type, fails
SetupRead(k) ==
    LET valid == turns[k].requested \in valid_types
        free == session.exists /\ session.environment_type = NULL
    IN  /\ turns[k].pc = "execute"
        /\ turns[k].tool = "setup_environment"
        /\ turns' = [turns EXCEPT ![k] =
               IF valid /\ free
               THEN [@ EXCEPT !.pc = "update", !.read = session.environment_type]
               ELSE [@ EXCEPT !.pc = "observe", !.success = FALSE,
                              !.read = IF valid THEN session.environment_type ELSE NULL]]
        /\ UNCHANGED <<session, agent_config, chat_vars, agent_vars, pool_vars, tool_vars, link_vars>>

\* environment_tool.py lines 149-164: UPDATE chat_sessions SET
\* environment_type, environment_config WHERE id = session_id, commit, and
\* the call of create_container
SetupUpdate(k) ==
    /\ turns[k].pc = "update"
    /\ session' = IF session.exists
                  THEN [session EXCEPT !.environment_type = turns[k].requested,
                                       !.environment_config = "empty"]
                  ELSE session
    /\ turns' = [turns EXCEPT ![k] = [@ EXCEPT !.pc = "create", !.site = "setup"]]
    /\ UNCHANGED <<agent_config, chat_vars, agent_vars, pool_vars, tool_vars, link_vars>>

\* executor.py line 245 for a sandbox tool: it returns a ToolResult
SandboxToolRuns(k, success) ==
    /\ turns[k].pc = "execute"
    /\ turns[k].tool \in SandboxTools
    /\ turns' = [turns EXCEPT ![k] = [@ EXCEPT !.pc = "observe", !.success = success]]
    /\ UNCHANGED <<session, agent_config, chat_vars, agent_vars, pool_vars, tool_vars, link_vars>>

\* chat_handler.py lines 860-918: the observation is persisted as a content
\* block (a row for a session that is gone is not counted); after a
\* successful setup_environment the handler goes on to refresh the session
ObservationHandled(k) ==
    /\ turns[k].pc = "observe"
    /\ session' = IF session.exists THEN [session EXCEPT !.blocks = @ + 1] ELSE session
    /\ turns' = [turns EXCEPT ![k] =
           IF @.tool = "setup_environment" /\ @.success
           THEN [@ EXCEPT !.pc = "refresh"]
           ELSE [@ EXCEPT !.pc = "top", !.tool = "none"]]
    /\ UNCHANGED <<agent_config, chat_vars, agent_vars, pool_vars, tool_vars, link_vars>>

\* chat_handler.py lines 918-954: db.refresh(session), which raises for a row
\* that is gone; with environment_type set the container is fetched, or
\* created when none is running, and the registry is swapped; the agent is
\* suspended at its yield of the observation the while
RegistrySwap(k) ==
    /\ turns[k].pc = "refresh"
    /\ IF ~session.exists \/ session.environment_type = NULL \/ get_container # 0
       THEN /\ turns' = [turns EXCEPT ![k] =
                  IF ~session.exists
                  THEN [@ EXCEPT !.pc = "failed"]
                  ELSE IF session.environment_type = NULL
                  THEN [@ EXCEPT !.pc = "top", !.tool = "none"]
                  ELSE [@ EXCEPT !.pc = "top", !.tool = "none", !.swapped = TRUE,
                                 !.tool_registry = Swapped(turns[k].enabled_tools)]]
            /\ UNCHANGED <<active_containers, docker>>
       ELSE create_container(k, [turns[k] EXCEPT !.tool = "none"], TurnArgs("swap", session))
    /\ UNCHANGED <<session, agent_config, calls, pool_ops, chat_vars, agent_vars, tool_vars, link_vars>>

\* a mutant of CancelTurn: cancelling destroys the container of the session
CancelDestroys(k) ==
    /\ turns[k].pc \in Awaiting
    /\ turns' = [turns EXCEPT ![k] = [@ EXCEPT !.pc = "cancelled"]]
    /\ active_containers' = Popped(active_containers)
    /\ docker' = [docker EXCEPT !.containers = {}]
    /\ UNCHANGED <<session, agent_config, calls, pool_ops, chat_vars, agent_vars, tool_vars, link_vars>>

\* chat_handler.py lines 270-284 and 1037-1049: a cancel frame sets the
\* cancel event and cancels the task; CancelledError is raised at the await
\* the turn is suspended at, passes the except Exception clauses of
\* create_container and of the tool, and ends the turn as cancelled
CancelTurn(k) ==
    /\ turns[k].pc \in Awaiting
    /\ turns' = [turns EXCEPT ![k] = [@ EXCEPT !.pc = "cancelled"]]
    /\ UNCHANGED <<session, agent_config, chat_vars, agent_vars, pool_vars, tool_vars, link_vars>>

\* routes/chat.py lines 155-172 with chat_session.py lines 37-38: the row is
\* deleted and its content blocks with it
delete_chat_session ==
    /\ session.exists
    /\ session' = [InitSession EXCEPT !.exists = FALSE]
    /\ UNCHANGED <<agent_config, turns, chat_vars, agent_vars, pool_vars, tool_vars, link_vars>>

SessionNext ==
    \/ \E enabled_tools \in Enabled : update_agent_config(enabled_tools)
    \/ \E k \in Turns : StartTurn(k)
    \/ \E k \in Turns : TurnCreateBegin(k)
    \/ \E k \in Turns, fault \in {"none", "run"} : TurnCreateRun(k, fault)
    \/ \E k \in Turns : AgentLists(k)
    \/ \E k \in Turns, name \in Called, requested \in Requested \cup {NULL} :
         AgentCalls(k, name, requested)
    \/ \E k \in Turns : SetupRead(k)
    \/ \E k \in Turns : SetupUpdate(k)
    \/ \E k \in Turns, success \in BOOLEAN : SandboxToolRuns(k, success)
    \/ \E k \in Turns : ObservationHandled(k)
    \/ \E k \in Turns : RegistrySwap(k)
    \/ \E k \in Turns : CancelTurn(k)
    \/ delete_chat_session
    \/ ContainerExits

SessionSpec == Init /\ [][SessionNext]_vars

\* ---------------------------------------------- the receive loop of a connection
\* the frames a client sends: objects of type message and cancel, objects of
\* another type or of none, JSON that is no object, and text that is no JSON
ClientFrames ==
    {[json |-> "object", type |-> ty] : ty \in {"message", "cancel", "ping", "none"}}
    \cup {[json |-> "array", type |-> "none"], [json |-> "invalid", type |-> "none"]}

\* a mutant of Raises: every text parses to an object
NeverRaises(frame) == FALSE

\* chat_handler.py lines 245-246: json.loads(data) raises JSONDecodeError for
\* text that is no JSON, and message_data.get raises AttributeError for a
\* value that is no object
Raises(frame) == frame.json # "object"

\* chat_handler.py lines 286-305: what the loop raises is caught, the
\* streaming manager is told, an error frame is sent unless the exception is
\* WebSocketDisconnect or the socket refuses it, and the socket is closed
Excepted(l, disconnect, usable) ==
    [l EXCEPT !.pc = "closed", !.handle_disconnect = TRUE,
              !.sent = IF disconnect \/ ~usable THEN @ ELSE Append(@, "error")]

\* chat_handler.py lines 201-241: the connection is accepted, the session
\* and its agent configuration are found, the loop begins
Accept ==
    /\ link.pc = "new"
    /\ link' = [link EXCEPT !.pc = "loop"]
    /\ UNCHANGED <<chat_vars, agent_vars, pool_vars, session_vars, tool_vars>>

\* chat_handler.py lines 242-305: one round of the loop.  A message frame
\* creates the cancel event and a task; a cancel frame sets the event,
\* cancels the current task and is acknowledged; an object of another type
\* matches no branch; a frame that raises, and an acknowledgement the socket
\* refuses, end the loop in the except clause
ReceiveText(frame, usable) ==
    LET l == [link EXCEPT !.received = @ + 1, !.last = frame, !.usable = usable]
    IN  /\ link.pc = "loop"
        /\ link.received < MaxFrames
        /\ link' =
             IF Raises(frame) THEN Excepted(l, FALSE, usable)
             ELSE IF frame.type = "message"
             THEN [l EXCEPT !.tasks = @ + 1,
                            !.cancel_event = IF @ = "none" THEN "clear" ELSE @]
             ELSE IF frame.type = "cancel"
             THEN LET c == [l EXCEPT !.cancel_event = IF @ = "none" THEN @ ELSE "set",
                                     !.cancelled = l.tasks > 0]
                  IN  IF usable
                      THEN [c EXCEPT !.sent = Append(@, "cancel_acknowledged")]
                      ELSE Excepted(c, FALSE, FALSE)
             ELSE l
        /\ UNCHANGED <<chat_vars, agent_vars, pool_vars, session_vars, tool_vars>>

\* chat_handler.py lines 244 and 286-289: the client is gone, receive_text
\* raises WebSocketDisconnect
ClientGone ==
    /\ link.pc = "loop"
    /\ link' = Excepted(link, TRUE, FALSE)
    /\ UNCHANGED <<chat_vars, agent_vars, pool_vars, session_vars, tool_vars>>

LinkNext ==
    \/ Accept
    \/ \E frame \in ClientFrames, usable \in BOOLEAN : ReceiveText(frame, usable)
    \/ ClientGone

LinkSpec == Init /\ [][LinkNext]_vars

\* ------------------------------------------------------ the tools of the sandbox
\* the segments of the paths a model supplies; a path is absolute and is the
\* sequence of its segments, /workspace/out/.. being <<"workspace", "out", "..">>
Segments == {"workspace", "workspace2", "project_files", "..", "etc"}

Paths == UNION {[1..n -> Segments] : n \in 1..MaxSegments}

\* posixpath.normpath of an absolute path: a ".." segment takes the segment
\* before it away, and is dropped at the root
RECURSIVE normpath(_)
normpath(path) ==
    IF path = <<>> THEN <<>>
    ELSE LET front == normpath(SubSeq(path, 1, Len(path) - 1))
             seg == path[Len(path)]
         IN  IF seg # ".." THEN Append(front, seg)
             ELSE IF front = <<>> THEN <<>>
             ELSE SubSeq(front, 1, Len(front) - 1)

\* security.py lines 62-87: the normalized path starts with the string
\* "/workspace", which "/workspace2" does as well, and has no ".." in it
validate_file_path(path) ==
    LET normalized == normpath(path)
    IN  /\ normalized # <<>>
        /\ normalized[1] \in {"workspace", "workspace2"}
        /\ \A i \in 1..Len(normalized) : normalized[i] # ".."

\* file_tools.py lines 28-33 and 87-92: FileReadInput and FileEditInput take a
\* path that starts with "/workspace/"
FileInput(path) == Len(path) >= 2 /\ path[1] = "workspace"

\* line_edit_tool.py lines 47-54: LineEditInput takes a path that starts with
\* "/workspace/" and has no "/project_files" in it
LineEditInput(path) ==
    /\ Len(path) >= 2
    /\ path[1] = "workspace"
    /\ \A i \in 1..Len(path) : path[i] # "project_files"

\* file_tools.py line 290: a filename with no separator and no leading dot
SimpleFilename(filename) == Len(filename) = 1 /\ filename[1] # ".."

\* an operation issued to the SandboxContainer
Op(op, path) == [op |-> op, path |-> path, content |-> <<>>, ok |-> TRUE]

\* container.py lines 101-142: write_file(container_path, content) returns
\* True when the archive was put, False when put_archive raised
write_file(container_path, content, ok) ==
    [op |-> "write", path |-> container_path, content |-> content, ok |-> ok]

\* text is a sequence of characters
Chars == {"a", "b"}
Contents == UNION {[1..n -> Chars] : n \in 0..MaxContent}

\* container.py lines 144-200: read_file returns the content, or None when
\* the file could not be read
ReadResults == {Unreadable} \cup {[found |-> TRUE, content |-> c] : c \in Contents}

\* the places old occurs at in content, 0 for none: str.find
find(content, old) ==
    LET at == {i \in 1..(Len(content) - Len(old) + 1) :
                  SubSeq(content, i, i + Len(old) - 1) = old}
    IN  IF at = {} THEN 0 ELSE CHOOSE i \in at : \A j \in at : i <= j

\* str.count: the occurrences of old in content that do not overlap, counted
\* from the left; the empty string occurs before every character and at the end
RECURSIVE count(_, _)
count(content, old) ==
    IF old = <<>> THEN Len(content) + 1
    ELSE IF find(content, old) = 0 THEN 0
    ELSE 1 + count(SubSeq(content, find(content, old) + Len(old), Len(content)), old)

\* file_tools.py line 458: current_content.replace(old_content, new_content, 1)
str_replace(content, old, new) ==
    LET i == find(content, old)
    IN  IF i = 0 THEN content
        ELSE SubSeq(content, 1, i - 1) \o new
             \o SubSeq(content, i + Len(old), Len(content))

\* the execution that returned
Returned_(tool, path, success) ==
    [InitInvocation EXCEPT !.tool = tool, !.pc = "returned", !.path = path,
                           !.success = success]

\* file_tools.py lines 143-227: file_read validates the path and reads the
\* file, which is there or not
FileRead(path, exists) ==
    LET valid == FileInput(path) /\ validate_file_path(path)
    IN  /\ invocation.pc # "running"
        /\ sandbox' = IF valid THEN <<Op("read", path)>> ELSE <<>>
        /\ invocation' = Returned_("file_read", path, valid /\ exists)
        /\ UNCHANGED <<chat_vars, agent_vars, pool_vars, session_vars, link_vars>>

\* file_tools.py lines 408-486: file_edit validates the path and reads the
\* file; `old_content not in current_content` raises for None and the except
\* clause makes a failure of it; old_content found, and counted once, is
\* replaced and the file written back.  The value write_file returns is not
\* looked at (line 461) and the result is a success
FileEdit(path, read, old_content, new_content, written) ==
    LET valid == FileInput(path) /\ validate_file_path(path)
        current_content == read.content
        once == /\ read.found
                /\ find(current_content, old_content) # 0
                /\ count(current_content, old_content) <= 1
        new_file_content == str_replace(current_content, old_content, new_content)
    IN  /\ invocation.pc # "running"
        /\ sandbox' = IF ~valid THEN <<>>
                      ELSE IF once
                      THEN <<Op("read", path), write_file(path, new_file_content, written)>>
                      ELSE <<Op("read", path)>>
        /\ invocation' = [Returned_("file_edit", path, valid /\ once) EXCEPT
                            !.read = IF valid THEN read ELSE Unreadable,
                            !.old_content = old_content,
                            !.new_content = new_content]
        /\ UNCHANGED <<chat_vars, agent_vars, pool_vars, session_vars, link_vars>>

\* line_edit_tool.py lines 179-290: edit_lines reads the file of the path its
\* schema let through and, when the file is there, writes it back
EditLines(path, exists) ==
    LET valid == LineEditInput(path)
    IN  /\ invocation.pc # "running"
        /\ sandbox' = IF ~valid THEN <<>>
                      ELSE IF exists THEN <<Op("read", path), Op("write", path)>>
                      ELSE <<Op("read", path)>>
        /\ invocation' = Returned_("edit_lines", path, valid /\ exists)
        /\ UNCHANGED <<chat_vars, agent_vars, pool_vars, session_vars, link_vars>>

\* file_tools.py lines 278-329: file_write takes a simple filename and writes
\* /workspace/out/{filename}
FileWrite(filename) ==
    LET valid == SimpleFilename(filename)
        output_path == <<"workspace", "out">> \o filename
    IN  /\ invocation.pc # "running"
        /\ sandbox' = IF valid THEN <<Op("write", output_path)>> ELSE <<>>
        /\ invocation' = Returned_("file_write", filename, valid)
        /\ UNCHANGED <<chat_vars, agent_vars, pool_vars, session_vars, link_vars>>

\* container.py lines 53-58: exec_run(cmd, workdir, demux, stream) is given no
\* timeout and returns when the command has finished
exec_run(timeout, duration) == duration

\* bash_tool.py lines 96-122 and container.py lines 34-58: bash passes its
\* timeout to SandboxContainer.execute, which calls exec_run; a command that
\* sanitize_command refuses is not executed
BashExecute(timeout, duration, dangerous) ==
    /\ invocation.pc # "running"
    /\ IF dangerous
       THEN /\ sandbox' = <<>>
            /\ invocation' = Returned_("bash", <<>>, FALSE)
       ELSE /\ sandbox' = <<Op("execute", <<>>)>>
            /\ invocation' = [InitInvocation EXCEPT
                                !.tool = "bash", !.pc = "running",
                                !.timeout = timeout,
                                !.duration = exec_run(timeout, duration)]
    /\ UNCHANGED <<chat_vars, agent_vars, pool_vars, session_vars, link_vars>>

\* a second passes while the command runs
Tick ==
    /\ invocation.pc = "running"
    /\ invocation.elapsed < invocation.duration
    /\ invocation' = [invocation EXCEPT !.elapsed = @ + 1]
    /\ UNCHANGED <<sandbox, chat_vars, agent_vars, pool_vars, session_vars, link_vars>>

\* container.py lines 60-64 and bash_tool.py lines 124-139: exec_run has
\* returned, the exit code makes the ToolResult
BashReturns(exit_code) ==
    /\ invocation.pc = "running"
    /\ invocation.elapsed = invocation.duration
    /\ invocation' = [invocation EXCEPT !.pc = "returned", !.success = exit_code = 0]
    /\ UNCHANGED <<sandbox, chat_vars, agent_vars, pool_vars, session_vars, link_vars>>

ToolNext ==
    \/ \E path \in Paths, exists \in BOOLEAN : FileRead(path, exists)
    \/ \E path \in Paths, read \in {Unreadable, [found |-> TRUE, content |-> <<"a">>]},
          written \in BOOLEAN :
         FileEdit(path, read, <<"a">>, <<"b">>, written)
    \/ \E path \in Paths, exists \in BOOLEAN : EditLines(path, exists)
    \/ \E filename \in Paths : FileWrite(filename)
    \/ \E timeout \in 1..MaxTimeout, duration \in 1..MaxDuration,
          dangerous \in BOOLEAN : BashExecute(timeout, duration, dangerous)
    \/ Tick
    \/ \E exit_code \in {0, 1} : BashReturns(exit_code)

ToolSpec == Init /\ [][ToolNext]_vars

\* ------------------------------------------------------ file_edit on a file
\* a path the checks of file_edit let through and one they reject
EditPaths == {<<"workspace", "project_files">>, <<"etc", "workspace">>}

\* one call of file_edit over every content of the file, every old_content
\* and new_content, a file that cannot be read and a write that fails
EditNext ==
    /\ invocation.tool = "none"
    /\ \E path \in EditPaths, read \in ReadResults, old_content \in Contents,
          new_content \in Contents, written \in BOOLEAN :
           FileEdit(path, read, old_content, new_content, written)

EditSpec == Init /\ [][EditNext]_vars

\* ------------------------------------------------------------- claims
\* the persisted assistant_text rows of a turn
AssistantRows(t) == {b \in db : b.owner = t /\ b.kind = "assistant_text"}

\* the turn's text is durable and its unit is closed
Persisted(t) ==
    \E b \in AssistantRows(t) : ~b.streaming /\ b.text = task[t].content

TerminalStatus == {"completed", "cancelled", "error"}

\* the text an attached client assembled from its resume frame and its chunks
Received(c) ==
    Concat([i \in 1..Len(frames[c]) |->
              IF frames[c][i].type \in {"stream_sync", "chunk"}
              THEN frames[c][i].content ELSE <<>>])

\* the attach handler of c returned with the client still connected
AttachReturned(c) == conn[c].attached /\ conn[c].pc = "closed" /\ conn[c].open

\* C1: at no moment do two generation tasks of the conversation run: a
\* message frame received while a task runs starts no second task
AtMostOneGeneration ==
    Cardinality({t \in Tasks : TaskAlive(t)}) <= 1

\* C2: no two content units of the conversation carry the same
\* sequence_number, whichever handlers created them
SequenceNumbersNeverReused ==
    \A a \in db : \A b \in db : a.id # b.id => a.seq # b.seq

\* C3: whenever no task runs, the sequence numbers of the persisted units are
\* exactly 1..n, also after a write failed once its number was taken
SequenceGapless ==
    (\A t \in Tasks : ~TaskAlive(t)) => {b.seq : b \in db} = 1..MaxSeq(db)

\* C4: a client that attached to a streaming unit and stayed connected until
\* the task was terminal assembled, from stream_sync and its chunk frames, exactly the
\* unit's complete text
ResumeComplete ==
    \A c \in Conns : \A t \in Tasks :
        (/\ AttachReturned(c)
         /\ Len(frames[c]) > 0
         /\ frames[c][1].type = "stream_sync"
         /\ frames[c][1].block = task[t].block
         /\ TaskDone(t)
         /\ info[t].status \in TerminalStatus)
        => Received(c) = task[t].content

\* C5: a turn that observed its cancellation ends with its assistant_text unit
\* persisted as streaming=false, cancelled=true and with exactly the text
\* streamed before the cancellation
CancellationDurable ==
    \A t \in Tasks :
        (TaskDone(t) /\ task[t].cancelled)
        => \E b \in AssistantRows(t) :
              ~b.streaming /\ b.cancelled /\ b.text = task[t].content

\* C6: in a cancelled turn the client has the terminal cancelled frame only
\* once the partial text is durable
PersistBeforeTerminal ==
    \A t \in Tasks :
        (task[t].cancelled /\ task[t].terminals > 0)
        => \E b \in AssistantRows(t) : b.text = task[t].content

\* C7: a turn sends its connection exactly one of assistant_text_end, cancelled
\* and error, and no chunk, tool_call_block or tool_result_block after it
ExactlyOneTerminal ==
    \A t \in Tasks :
        /\ task[t].terminals <= 1
        /\ ~task[t].late
        /\ (task[t].pc = "done" /\ conn[task[t].conn].open) => task[t].terminals = 1

\* C8: a connection that attached to a running task creates no content unit,
\* takes no sequence number, registers no task and runs neither model nor tool
AttachDoesNotGenerate ==
    \A c \in Conns :
        conn[c].attached
        => /\ conn[c].seq_cache = 0
           /\ conn[c].cur_task = 0
           /\ conn[c].cancel_event = 0
           /\ \A t \in Tasks : task[t].pc # "none" => task[t].conn # c
           /\ \A b \in db : task[b.owner].conn # c

\* C8 witness: a connection attached, was forwarded a chunk and returned after
\* the turn it attached to had ended
AttachedThroughTurn ==
    \E c \in Conns :
        /\ AttachReturned(c)
        /\ \E i \in 1..Len(frames[c]) : frames[c][i].type = "chunk"
        /\ TaskDone(conn[c].existing)
        /\ db # {}

\* C9: when the task an attached, still connected client follows takes a
\* terminal status, the client is sent the signal of that status before the
\* attach handler returns
AttachedTerminalSignal ==
    \A c \in Conns :
        (AttachReturned(c) /\ info[conn[c].existing].status \in TerminalStatus)
        => /\ Len(frames[c]) > 0
           /\ frames[c][Len(frames[c])].type =
                 IF info[conn[c].existing].status = "cancelled"
                 THEN "cancelled" ELSE "assistant_text_end"

\* C10: a turn one of whose sends failed on a closed connection still runs to
\* its end, has its final text durable and its task marked terminal
SendFailuresNeverAbort ==
    \A t \in Tasks :
        (TaskDone(t) /\ task[t].send_failed)
        => /\ task[t].pc = "done"
           /\ Persisted(t)
           /\ info[t].status \in TerminalStatus

\* -------------------------------------------------- claims, ReActAgent.run
\* the event types of the iteration under way (or just over)
IterTypes == {emitted.iter[i].type : i \in 1..Len(emitted.iter)}

\* how many events of a type the iteration has emitted
IterCount(type) == Cardinality({i \in 1..Len(emitted.iter) : emitted.iter[i].type = type})

\* the call index a delta belongs to
IndexOf(d) == IF d.index = NoIndex THEN 0 ELSE d.index

\* the lowest call index of the deltas of a stream
LowestIndex(log) ==
    CHOOSE i \in {IndexOf(log[n]) : n \in 1..Len(log)} :
        \A n \in 1..Len(log) : i <= IndexOf(log[n])

\* the deltas of one call index, in arrival order
DeltasAt(log, i) == SelectSeq(log, LAMBDA d : IndexOf(d) = i)

\* the argument fragments of a sequence of deltas, concatenated
Fragments(log) == Concat([n \in 1..Len(log) |-> log[n].arguments])

\* the names a sequence of deltas supplies
Supplied(log) == SelectSeq(log, LAMBDA d : d.name # None)

\* the text of the chunk events of the iteration
ChunkText ==
    Concat([n \in 1..Len(emitted.iter) |->
              IF emitted.iter[n].type = "chunk" THEN emitted.iter[n].content ELSE <<>>])

\* C11: an iteration whose tool call came back as a validation error emits no
\* action and no observation event and no tool_call or tool_result unit is
\* persisted for it; the model context gets the call and the corrective message
ValidationErrorHidden ==
    agent.result = "validation_error" =>
        /\ agent.pc \in {"top", "done"}
        /\ IterTypes \cap {"action", "observation"} = {}
        /\ emitted.tool_call + emitted.failures <= emitted.tool_execs
        /\ emitted.tool_result = emitted.tool_call
        /\ emitted.failed_result <= emitted.tool_result
        /\ agent.appended \in {<<"function_call", "validation_failed">>,
                               <<"function_call", "escalation">>}

\* C11 witness: after a tool call that was persisted, a later iteration streamed
\* text, called a tool and got a validation error
ValidationErrorSeen ==
    /\ agent.pc = "top" /\ agent.result = "validation_error"
    /\ emitted.tool_call >= 1
    /\ "chunk" \in IterTypes

Measure(a) ==
    LET per == MaxStream + 4
        left == a.max_iterations - a.iteration
    IN  CASE a.pc = "none" -> (MaxAgentIterations + 3) * per
          [] a.pc = "ready" -> (a.max_iterations + 2) * per
          [] a.pc = "top" -> (left + 1) * per + MaxStream + 3
          [] a.pc = "stream" -> (left + 1) * per + MaxStream + 2 - a.chunk_count
          [] a.pc = "tool" -> (left + 1) * per + 1
          [] a.pc = "observe" -> (left + 1) * per
          [] OTHER -> 0

\* a step of the run itself (setting the cancel event is none)
RunStep == agent'.pc # agent.pc \/ agent'.chunk_count # agent.chunk_count

\* C13: a run opens at most max_iterations model streams and calls at most
\* max_iterations tools, every step brings it nearer its end, and a run that
\* uses up its iterations ends with one final_answer event, its last event
BoundedLoop ==
    /\ [](/\ emitted.llm_calls <= agent.max_iterations
          /\ emitted.tool_execs <= agent.max_iterations
          /\ emitted.final_answers <= 1
          /\ Measure(agent) >= 0
          /\ agent.pc # "done" => ENABLED AgentNext
          /\ agent.ended = "max_iterations" =>
                /\ agent.pc = "done"
                /\ emitted.last = "final_answer"
                /\ emitted.final_answers = 1
                /\ emitted.llm_calls = agent.max_iterations
          /\ emitted.final_answers = 1 => agent.ended = "max_iterations")
    /\ [][RunStep => Measure(agent') < Measure(agent)]_vars

\* C13 witness: a run of the greatest max_iterations called a tool in every
\* iteration and ended with the final_answer event
IterationsUsedUp ==
    /\ agent.ended = "max_iterations"
    /\ agent.max_iterations = MaxAgentIterations
    /\ emitted.tool_execs = MaxAgentIterations
    /\ emitted.tool_result >= 1

\* C14 as stated: a response with calls at several indices makes the iteration
\* execute exactly one tool
OneToolExecuted ==
    (agent.indices > 1 /\ agent.pc # "stream") => emitted.iter_execs = 1

\* C14 amended: an iteration executes at most one tool, and only the call of
\* the lowest index, with the name and the arguments the deltas of that index
\* gave, and only when that name is in the registry; it emits at most one
\* action and one observation event, the action naming that tool
LowestIndexOnly ==
    /\ emitted.iter_execs <= 1
    /\ IterCount("action") <= 1 /\ IterCount("observation") <= 1
    /\ agent.pc = "tool" =>
          LET mine == DeltasAt(agent.deltas, LowestIndex(agent.deltas))
          IN  /\ emitted.iter_execs = 1
              /\ agent.indices >= 1
              /\ agent.function_name \in
                    {Supplied(mine)[n].name : n \in 1..Len(Supplied(mine))}
              /\ agent.function_name \in Registered
              /\ agent.function_args = Fragments(mine)
    /\ agent.pc = "observe" =>
          /\ emitted.iter_execs = 1
          /\ emitted.iter[Len(emitted.iter)].type = "action"
          /\ emitted.iter[Len(emitted.iter)].tool = agent.function_name

\* C14 witness: in a later iteration the response carried calls at several
\* indices and the action event of the one executed is out
SeveralCallsOneAction ==
    /\ agent.pc = "observe"
    /\ agent.indices > 1
    /\ agent.iteration >= 1

\* C15: the arguments of the executed call are the fragments of its index in
\* arrival order and no others, and its name is the first one supplied for
\* that index
ArgumentsPerIndex ==
    agent.pc = "tool" =>
        LET mine == DeltasAt(agent.deltas, LowestIndex(agent.deltas))
        IN  /\ agent.function_args = Fragments(mine)
            /\ agent.function_name = Supplied(mine)[1].name

\* C16 as stated: a text response without a function call ends the run with a
\* done event
FinalAnswerDone == agent.ended = "final" => emitted.last = "done"

\* C16 amended: a response with text and no call of a tool ends the run without
\* a further event: the last event is the last chunk of that text, the chunks
\* of the iteration are the text, and the model is not invoked again
FinalAnswerReturns ==
    /\ agent.ended = "final" =>
          /\ agent.pc = "done"
          /\ emitted.last = "chunk"
          /\ agent.full_response # <<>>
          /\ ChunkText = agent.full_response
          /\ emitted.llm_calls = agent.iteration + 1
    /\ (agent.pc = "top" /\ agent.iteration > 0) => agent.result # "none"

\* C16 witness: after an iteration that called a tool, a text response ended
\* the run
AnsweredAfterTool ==
    /\ agent.ended = "final"
    /\ agent.iteration >= 1
    /\ emitted.tool_result >= 1

\* C17: once the cancel event is set, the run emits no chunk, action,
\* observation or final_answer event, and it ends with the cancelled event
CancelStopsRun ==
    /\ emitted.after_cancel \cap {"chunk", "action", "observation", "final_answer"} = {}
    /\ (agent.pc = "done" /\ agent.cancel_event
           /\ agent.ended \in {"cancelled", "max_iterations"}) =>
          emitted.last = "cancelled"

\* ----------------------------------------------- claims, ContainerPoolManager
\* the containers of the session the engine reports as running
LiveContainers == {c \in docker.containers : c.status = "running"}

\* a create_container call made with an env_type the pool knows, of which no
\* engine or storage call failed and beside which no other create_container
\* was suspended
Undisturbed(c) == c.op = "create" /\ c.known_env /\ ~c.faulted /\ ~c.overlapped

\* a step in which create_container of caller k returns a handle
Returns(k) == calls[k].pc # "returned" /\ calls'[k].pc = "returned"
                 /\ calls'[k].op = "create"

\* C18: a create_container call that finds the tracked container dead (exited
\* or gone) raises nothing and returns a handle of another container id, and
\* at no time does the engine run two containers of the session
OrphanRecovery ==
    /\ Cardinality(LiveContainers) <= 1
    /\ \A k \in Callers :
         (Undisturbed(calls[k]) /\ calls[k].tracked # 0
             /\ calls[k].status # "running") =>
            /\ calls[k].pc # "raised"
            /\ calls[k].pc = "returned" =>
                  /\ calls[k].result # 0
                  /\ calls[k].result # calls[k].tracked

\* C18 witness: a call that found its tracked container dead has returned the
\* handle of a new container, which runs and is tracked
RecoveredAfterDeath ==
    \E k \in Callers :
        /\ Undisturbed(calls[k]) /\ calls[k].pc = "returned"
        /\ calls[k].tracked # 0 /\ calls[k].status # "running"
        /\ calls[k].result > calls[k].tracked
        /\ active_containers = calls[k].result
        /\ Status(calls[k].result) = "running"

BeginsOnLive(k) ==
    /\ calls[k].pc \in Finished
    /\ calls'[k] # calls[k] /\ calls'[k].op = "create"
    /\ pool_ops' = pool_ops + 1
    /\ active_containers # 0 /\ Status(active_containers) = "running"
    /\ ~calls'[k].faulted

\* C20: create_container for a session whose tracked handle is running returns
\* that handle at once, starts no container and leaves the pool map and the
\* engine as they are, whatever env_type and environment_config it is given
LiveHandleReused ==
    [][\A k \in Callers :
         BeginsOnLive(k) =>
            /\ calls'[k].pc = "returned"
            /\ calls'[k].result = active_containers
            /\ active_containers' = active_containers
            /\ docker' = docker]_vars

\* C20 witness: a call with an env_type the pool does not know and with
\* packages has returned the running handle the pool tracked
ReusedWhateverEnv ==
    \E k \in Callers :
        /\ calls[k].op = "create" /\ calls[k].pc = "returned"
        /\ ~calls[k].known_env /\ calls[k].packages
        /\ calls[k].tracked # 0 /\ calls[k].status = "running"
        /\ calls[k].result = calls[k].tracked
        /\ active_containers = calls[k].tracked

\* a step in which caller k begins (and, but for create_container, ends) an
\* operation of the pool
Begins(k, op) ==
    /\ pool_ops' = pool_ops + 1
    /\ calls'[k].op = op /\ calls'[k].at = pool_ops + 1

\* C21: destroy_container returns True whether or not the session is tracked
\* and leaves the pool map without an entry for it; called for a session
\* without an entry (as right after a destroy_container) it changes nothing;
\* and get_container for a session without an entry returns None
DestroyIdempotent ==
    [][\A k \in Callers :
         /\ Begins(k, "destroy") =>
               /\ calls'[k].pc = "returned" /\ calls'[k].success
               /\ active_containers' = 0
               /\ active_containers = 0 => docker' = docker
         /\ (Begins(k, "get") /\ active_containers = 0) =>
               /\ calls'[k].pc = "returned" /\ calls'[k].result = 0
               /\ active_containers' = 0 /\ docker' = docker]_vars

\* C21 witness: a destroy_container that found a running container tracked was
\* followed at once by a second one, which found no entry and returned True
DestroyedTwice ==
    \E j, k \in Callers :
        /\ calls[j].op = "destroy" /\ calls[j].tracked # 0
        /\ calls[j].status = "running" /\ calls[j].success
        /\ calls[k].op = "destroy" /\ calls[k].tracked = 0 /\ calls[k].success
        /\ calls[k].at = calls[j].at + 1
        /\ active_containers = 0 /\ docker.containers = {}

\* C22: a destroy_container or reset_container during which the engine failed
\* returns False
EngineErrorsReported ==
    \A k \in Callers :
        (calls[k].op \in {"destroy", "reset"} /\ calls[k].faulted) => ~calls[k].success

\* the containers a step stops or removes
Touched == docker.containers \ docker'.containers

WholeRegistry(turn, tools) ==
    tools \in {SetupRegistry, SandboxRegistry(turn.enabled_tools)}

EnvironmentSetOnce ==
    /\ [][session'.exists /\ session'.environment_type # session.environment_type
             => /\ session.environment_type = NULL
                /\ session'.environment_type \in valid_types]_vars
    /\ [][\A k \in Turns :
            /\ InFlight(turns[k])
            /\ turns'[k] # turns[k]
            /\ session.environment_type # NULL
            => /\ session'.environment_type = session.environment_type
               /\ session'.environment_config = session.environment_config]_vars

\* C26: when delete_chat_session has deleted the session, none of its content
\* blocks remains, the pool tracks no handle for it and the engine has no
\* container of it
DeletionTearsDown ==
    [][session.exists /\ ~session'.exists
         => /\ session'.blocks = 0
            /\ active_containers' = 0
            /\ docker'.containers = {}]_vars

Round == link'.received = link.received + 1

\* C27 as claimed: a frame that is no JSON, no object, or an object of a type
\* other than message and cancel is answered with an error frame on a usable
\* socket, and the loop goes on
ProtocolErrorsKeepOpen ==
    [][Round /\ link'.usable
         /\ (link'.last.json # "object" \/ link'.last.type \notin {"message", "cancel"})
         => /\ link'.pc = "loop"
            /\ link'.sent = Append(link.sent, "error")]_vars

\* C27 as the code has it: a frame that is no JSON or no object is answered
\* with an error frame on a usable socket and ends the connection, without a
\* task created; an object of a type other than message and cancel is passed
\* over without a frame sent and the loop goes on; a message frame the loop
\* receives creates a task; a closed connection handles nothing more
ProtocolErrorsHandled ==
    /\ [][Round /\ link'.last.json # "object"
             => /\ link'.pc = "closed"
                /\ link'.tasks = link.tasks
                /\ link'.sent = IF link'.usable THEN Append(link.sent, "error")
                                 ELSE link.sent]_vars
    /\ [][Round /\ link'.last.json = "object"
             /\ link'.last.type \notin {"message", "cancel"}
             => /\ link'.pc = "loop"
                /\ link'.tasks = link.tasks
                /\ link'.sent = link.sent]_vars
    /\ [][Round /\ link'.last.json = "object" /\ link'.last.type = "message"
             => /\ link'.pc = "loop"
                /\ link'.tasks = link.tasks + 1]_vars
    /\ [][link.pc = "closed" => link' = link]_vars

\* C27 witness: after a message frame that created a task, text that is no
\* JSON was answered with an error frame and the connection is closed
ClosedByInvalidJson ==
    /\ link.pc = "closed"
    /\ link.last.json = "invalid"
    /\ link.tasks > 0
    /\ link.sent # <<>>
    /\ link.sent[Len(link.sent)] = "error"

\* ------------------------------------------------ claims C29 and C30
\* a path has no parent-traversal segment and lies under /workspace, and for
\* a write not under the read-only /workspace/project_files
Confined(op, path) ==
    /\ \A i \in 1..Len(path) : path[i] # ".."
    /\ path # <<>>
    /\ path[1] = "workspace"
    /\ op = "write" => ~(Len(path) >= 2 /\ path[2] = "project_files")

\* C29: every read_file and write_file that file_read, file_edit, edit_lines
\* and file_write issue to the sandbox has a confined path, and a call whose
\* path is not confined fails
PathConfinement ==
    /\ \A i \in 1..Len(sandbox) :
          sandbox[i].op \in {"read", "write"} => Confined(sandbox[i].op, sandbox[i].path)
    /\ invocation.tool \in {"file_read", "file_edit", "edit_lines"}
          /\ ~Confined("read", invocation.path)
          => ~invocation.success /\ sandbox = <<>>

\* C30: a command that bash runs in the sandbox has not run for longer than
\* the timeout the call passed
TimeoutBounded ==
    invocation.tool = "bash" /\ invocation.pc = "running"
        => invocation.elapsed <= invocation.timeout

\* ------------------------------------------------ claims C32 and C33
\* the call of the lowest index names no tool of the registry, or has no name
Unregistered(a) ==
    /\ a.tool_calls # NoCalls
    /\ a.tool_calls[first_index(a.tool_calls)].name \notin Registered

\* C33: when the stream ends and the call of the lowest index names a tool
\* that is not registered, or has no name, no tool is executed and no action
\* or observation event is emitted; the response is handled as one without a
\* call: with text the run returns as for a final answer and emits nothing
\* more, without text it emits the error event; either way the run ends in
\* that iteration
UnknownToolFallsThrough ==
    [][(StreamEnd /\ Unregistered(agent)) =>
         /\ agent'.pc = "done"
         /\ agent'.iteration = agent.iteration
         /\ emitted'.tool_execs = emitted.tool_execs
         /\ emitted'.tool_call = emitted.tool_call
         /\ emitted'.tool_result = emitted.tool_result
         /\ IF agent.full_response # <<>>
            THEN agent'.ended = "final" /\ emitted' = emitted
            ELSE agent'.ended = "no_response" /\ emitted'.last = "error"]_vars

\* C33, witness: a run ended with the error event on a response that carried
\* a call and no text
UnknownToolEndedRun ==
    /\ agent.pc = "done"
    /\ agent.ended = "no_response"
    /\ agent.indices > 0

\* the call that passed validation is the max_same_tool_retries-th in a row
\* of its tool: the entries of the history before it that count are all its
\* name
SameToolAgain(a) ==
    LET h == a.tool_call_history
        n == max_same_tool_retries - 1
    IN  /\ Len(h) >= n
        /\ \A i \in (Len(h) - n + 1)..Len(h) : h[i] = a.function_name

\* the events of the iteration under way hold no action and no observation
NothingShown(em) ==
    \A i \in 1..Len(em.iter) : em.iter[i].type \notin {"action", "observation"}

FailedSetupLeavesUnset ==
    \A k \in Turns :
        (/\ \A j \in Turns \ {k} : turns[j].pc = "idle"
         /\ turns[k].pc = "observe"
         /\ turns[k].tool = "setup_environment"
         /\ ~turns[k].success
         /\ turns[k].iterations = 1
         /\ session.exists)
        => session.environment_type = NULL

\* C39: when a turn calls create_container because the environment is set
\* and no running handle is tracked, at its start or at the swap of its
\* registry, the environment type resolved to an image is the stored
\* environment_type, the options applied are the stored environment_config
\* and the project volume mounted is that of session.project_id: the binding
\* of the call setup_environment makes
RecreationBinding ==
    [][\A k \in Turns :
         (turns'[k].args # turns[k].args /\ turns'[k].args.site \in {"start", "swap"})
         => /\ turns'[k].args.project_id = session.project_id
            /\ turns'[k].args.env_type = session.environment_type
            /\ turns'[k].args.environment_config = session.environment_config]_vars

\* ------------------------------------------------ claim C40
\* the places old_content occurs at in content
occurrences(content, old) ==
    Cardinality({i \in 1..(Len(content) - Len(old) + 1) :
                    SubSeq(content, i, i + Len(old) - 1) = old})

\* the content of the file after a file_edit that read it: what a write_file
\* that returned True put there, else what was read
FileAfter ==
    IF \E i \in 1..Len(sandbox) : sandbox[i].op = "write" /\ sandbox[i].ok
    THEN sandbox[CHOOSE i \in 1..Len(sandbox) : sandbox[i].op = "write" /\ sandbox[i].ok].content
    ELSE invocation.read.content

\* the write of a file_edit failed
WriteFailed == \E i \in 1..Len(sandbox) : sandbox[i].op = "write" /\ ~sandbox[i].ok

\* C40: file_edit is all-or-nothing.  It reports success only if old_content
\* occurred exactly once in the file and the file now holds the content with
\* that occurrence replaced; when old_content occurs zero times or more than
\* once, or the path is rejected, or the write fails, the result is a failure
\* and the file content is unchanged
EditAllOrNothing ==
    (invocation.tool = "file_edit" /\ invocation.pc = "returned") =>
        LET before == invocation.read.content
            old == invocation.old_content
            new == invocation.new_content
        IN  /\ invocation.success =>
                /\ invocation.read.found
                /\ occurrences(before, old) = 1
                /\ FileAfter = str_replace(before, old, new)
            /\ (\/ ~invocation.read.found
                \/ occurrences(before, old) # 1
                \/ WriteFailed) =>
                /\ ~invocation.success
                /\ FileAfter = before

\* ------------------------------------------------------------- claim C36
\* the asyncio.Event the cancel frame handler of a task's connection would
\* set (0: none)
HandlerSignal(t) == conn[task[t].conn].cancel_event

\* C36: one cancel signal per task.  While the agent loop of a task runs, the
\* signal it checks, the signal registered with the task in the registry and
\* the signal the cancel frame handler of its connection sets are one object
OneCancelSignal ==
    \A t \in Tasks :
        TaskAlive(t) /\ task[t].event # 0 =>
            /\ task[t].event = info[t].cancel_event
            /\ HandlerSignal(t) = info[t].cancel_event

\* ------------------------------------------------------------- claim C34
\* the persisted tool_result units whose parent is the unit p
ResultsOf(p) == {b \in db : b.kind = "tool_result" /\ b.parent = p.id}

\* every persisted tool_result has a parent that is an earlier tool_call of
\* the same tool
ResultHasCall ==
    \A b \in db : b.kind = "tool_result" =>
        \E p \in db : /\ p.id = b.parent /\ p.kind = "tool_call"
                      /\ p.seq < b.seq /\ p.tool_name = b.tool_name

\* every tool_call is the parent of at most one tool_result
CallHasOneResult ==
    \A p \in db : p.kind = "tool_call" => Cardinality(ResultsOf(p)) <= 1

\* a tool_call has left pending exactly when its tool_result is persisted (or
\* is being written by the turn that made the call), and is complete iff the
\* result's success flag is true
StatusFollowsResult ==
    \A p \in db : p.kind = "tool_call" =>
        /\ p.status \in {"pending", "complete", "error"}
        /\ ResultsOf(p) # {} => p.status # "pending"
        /\ p.status # "pending" /\ ResultsOf(p) = {} =>
               task[p.owner].pc = "tr_write" /\ task[p.owner].tool_block = p.id
        /\ \A b \in ResultsOf(p) : p.status = "complete" <=> b.success

\* C34: tool call/result pairing.  Every persisted tool_result has a parent
\* tool_call with a smaller sequence number and the same tool name, a
\* tool_call is the parent of at most one tool_result, and a tool_call's
\* status leaves pending exactly when its tool_result is persisted, complete
\* iff the result succeeded
ToolPairing == ResultHasCall /\ CallHasOneResult /\ StatusFollowsResult

\* ------------------------------------------------------------- claim C38
\* the assistant_text units durably written with streaming = false
Finalized == {b \in db : b.kind = "assistant_text" /\ ~b.streaming}

\* C38: finalized units are immutable.  Once an assistant_text unit is
\* durably written with streaming = false, by the end-of-turn write or by the
\* finalize callback on connection loss, no later step changes its persisted
\* text or metadata
FinalizedImmutable == [][\A b \in Finalized : b \in db']_vars

\* ------------------------------------------------------------- claim C35
\* the registry entry of a task has a terminal status
Terminal(t) == info[t].status \in {"completed", "cancelled", "error"}

\* C35: every generation reaches a terminal registry status.  A task
\* registered as running is eventually marked completed, cancelled or error,
\* with the stream state of the conversation removed
GenerationEnds ==
    (info[1].status = "running") ~> (Terminal(1) /\ ~stream_states.present)

\* ------------------------------------------------------------- claim C31
\* the durable text of the assistant_text unit of a task
DurableText(t) ==
    IF \E b \in db : b.id = task[t].block
    THEN (CHOOSE b \in db : b.id = task[t].block).text
    ELSE <<>>

\* the text deltas a turn has taken that its durable unit does not hold
Unpersisted(t) ==
    IF task[t].block = 0 THEN 0 ELSE Len(task[t].content) - Len(DurableText(t))

\* the un-persisted deltas never exceed a batch
WithinBatch == Unpersisted(1) <= CHUNK_COMMIT_INTERVAL

\* nothing is un-persisted once a tool call or a tool result is persisted
FlushedAtTool == task[1].pc \in {"tc_send", "tr_send"} => Unpersisted(1) = 0

\* nothing is un-persisted once the turn is over: completed, cancelled, or
\* ended by an error
FlushedAtEnd == task[1].pc = "end_send" \/ TaskDone(1) => Unpersisted(1) = 0

\* nothing is un-persisted once the receive loop has handled the loss of the
\* connection
FlushedAtLoss == [][LoopDisconnected(1) => Unpersisted(1)' = 0]_vars

\* C31: batched persistence bound.  The text deltas not yet durably written
\* never exceed the batch size, and none is left un-persisted after a
\* lifecycle boundary: a tool call or tool result persisted, the turn over
\* (completion, cancellation), the loss of the connection handled
BatchedPersistence ==
    /\ []WithinBatch
    /\ []FlushedAtTool
    /\ []FlushedAtEnd
    /\ FlushedAtLoss

====
